---- MODULE Spec2Model ----
(***************************************************************************)
(* Raymond Agent: the command-line chat loop (chat.py), the LangGraph      *)
(* state graph retrieve_memories -> generate_response -> extract_memory    *)
(* (agent/graph.py) and the FAISS-backed long-term memory                  *)
(* (agent/memory.py); the QQ / WeChat bots and the data scripts.           *)
(*                                                                         *)
(* Spec     one chat session: start-up, user utterances, /clear, and the   *)
(*          three graph nodes of each turn, with every provider call       *)
(*          allowed to fail.                                               *)
(* SpecAdd  several threads running LongTermMemory.add_memory on one       *)
(*          shared store, interleaved at the statements of add_memory.     *)
(* SpecStore  one LongTermMemory at a time on one path: construction,      *)
(*          restarts, add_memory, search, get_all_count, seed file edits.  *)
(* SpecCmd  one chat session of one utterance with the /memory and /search *)
(*          commands, on a path that starts without an index.              *)
(* SpecNode retrieve_memories or extract_memory applied once to any graph  *)
(*          state.                                                         *)
(* SpecBot  the QQ / WeChat bot (fullversion/bot): message and reset       *)
(*          handlers of several chats on the shared `_history`.            *)
(* SpecReset  a run of either front end that has a reset: a chat.py        *)
(*          session or a bot process.                                      *)
(* SpecLazy several sessions of one process running turns through the      *)
(*          lazily built globals of agent/graph.py.                        *)
(* SpecWx   the WeChat bot with one handler thread per message,            *)
(*          interleaved at the statements of update_history.               *)
(* SpecClean  fullversion/data_pipeline/clean_and_validate.py applied to   *)
(*          any input file.                                                *)
(* SpecDistill, SpecDistillFair  the generate_distill_data.py loop under   *)
(*          any API outcomes; the second keeps the script running.         *)
(* SpecChatData  dataset/data_cleaning.py (ChatDataCleaner) applied to any *)
(*          raw data file.                                                 *)
(***************************************************************************)
EXTENDS Integers, Sequences, FiniteSets, TLC

VARIABLES
    W,              \* agent.config.SHORT_TERM_WINDOW (read from the environment)
    pc,             \* chat.py position: "Start", "Idle", or the graph node to run next
    state,          \* chat.py `state`: the session's conversation state
    g,              \* the state of the graph run in progress (agent.invoke)
    ltm,            \* graph.py `_long_term_memory`: [built, vs]
    disk,           \* the persisted index at FAISS_INDEX_PATH
    seed,           \* resources/raymond_memories.json
    shown,          \* what the loop printed for the current / last turn
    prompt,         \* the messages last sent to the generation provider
    turns,          \* utterances submitted so far
    trace,          \* nodes run in the current / last turn, in order
    pre,            \* `state` as it was before the current / last utterance
    failed,         \* the node whose provider failed in the current / last turn
    genCalls,       \* llm.invoke(prompt_messages) calls of the current / last turn
    extractCalls,   \* llm.invoke(extract_prompt) calls of the current / last turn
    addCalls,       \* add_memory calls of the current / last turn
    everAppended,   \* every message appended to the session since the last reset
    pending,        \* messages the nodes of the run in progress have appended
    fault,          \* the provider failure injected in the current / last turn
    xkind,          \* how the extractor reply of the current / last turn parsed
    tpc,            \* SpecAdd: each thread's position in add_memory
    tfact,          \* SpecAdd: the fact each thread adds
    vs0,            \* SpecAdd: the documents of the store before the adds
    disk0,          \* the persisted index as it was when the program started
    addFailed,      \* an add_memory call of the current / last turn raised
    xitems,         \* the elements of the array the extractor reply parsed to
    cmdOut,         \* what the last /memory or /search command printed
    hist,           \* SpecStore: the history of the store at one path
    op,             \* SpecStore: the last operation and what it returned
    io,             \* what the nodes of the current / last turn handed to the
                    \* store and to the extractor, and the extractor's reply
    history,        \* bot/qq_bot.py, bot/wechat_bot.py `_history`
    sent,           \* per key, the bot's handler call in progress or finished last
    recorded,       \* per key, the messages received and those recorded since
                    \* the key's last reset
    single,         \* graph.py `_long_term_memory`, `_llm`, `_system_prompt`,
                    \* `_fewshot_messages`: the object each global refers to
    made,           \* per global, the objects constructed for it so far
    sess,           \* per session thread, its position in the turn's getters
    href,           \* wechat_bot.py `_history`: per key, the list object stored
    lists,          \* the list objects made by the handlers, by identity
    wx,             \* per handler thread of wechat_bot.py, its position and locals
    raw_data,       \* clean_and_validate.py: the samples loaded from INPUT_FILE
    cleaned,        \* clean_and_validate.py: the samples saved to OUTPUT_FILE
    chatlog,        \* data_cleaning.py: the records of raw_data_file, in order
    finetune_data,  \* data_cleaning.py: the entries written to output_file
    distill         \* generate_distill_data.py: the locals of main and the
                    \* samples saved to OUTPUT_FILE

vars == <<W, pc, state, g, ltm, disk, seed, shown, prompt, turns, trace, pre,
          failed, genCalls, extractCalls, addCalls, everAppended, pending, fault,
          xkind, tpc, tfact, vs0, disk0, addFailed, xitems, cmdOut, hist, op, io,
          history, sent, recorded, single, made, sess, href, lists, wx,
          raw_data, cleaned, chatlog, finetune_data, distill>>

----------------------------------------------------------------------------
(* Bounds of the model *)

\* Utterances submitted in one run.
MaxTurns == 2

\* SHORT_TERM_WINDOW (RAYMOND_SHORT_TERM_WINDOW) ranges over 0..MaxW.
MaxW == 1

\* The value configured for RAYMOND_LONG_TERM_TOP_K.
LONG_TERM_TOP_K == 2

\* Threads calling add_memory at once.
MaxAdders == 2

UserTexts == {"cat", "hi"}

Replies == {"", "ok"}

Threads == 1..MaxAdders

----------------------------------------------------------------------------
(* Messages and conversation state *)

HumanMessage(c) == [type |-> "human", content |-> c]

AIMessage(c) == [type |-> "ai", content |-> c]

EmptyState ==
    [messages |-> <<>>, retrieved_memories |-> <<>>, should_extract_memory |-> FALSE]

IsPrefix(s, t) == Len(s) <= Len(t) /\ SubSeq(t, 1, Len(s)) = s

Min(a, b) == IF a <= b THEN a ELSE b

Max(a, b) == IF a >= b THEN a ELSE b

\* Python s[start:], negative start counted from the end.
PySliceFrom(s, start) ==
    LET n == Len(s)
        lo == IF start < 0 THEN Max(n + start, 0) ELSE Min(start, n)
    IN SubSeq(s, lo + 1, n)

----------------------------------------------------------------------------
(* agent/memory.py: LongTermMemory *)

\* A key that a metadata dict does not hold.
NoKey == "<missing>"

\* len() of the texts the model uses.
StrLen(t) ==
    CASE t = "cat named Mochi" -> 15
      [] t = "likes tea" -> 9
      [] t = "abcdef" -> 6
      [] t = "abcde" -> 5
      [] t = "tea" -> 3
      [] t = "cat" -> 3
      [] t = "hi" -> 2
      [] t = "ok" -> 2
      [] OTHER -> 0

Document(fact, topic, source, confidence) ==
    [page_content |-> fact, topic |-> topic, source |-> source,
     confidence |-> confidence]

NoVectorstore == [has |-> FALSE, docs |-> <<>>]

Vectorstore(docs) == [has |-> TRUE, docs |-> docs]

NoIndex == [kind |-> "absent", docs |-> <<>>]

SavedIndex(docs) == [kind |-> "ok", docs |-> docs]

CorruptIndex == [kind |-> "corrupt", docs |-> <<>>]

NoSeedFile == [exists |-> FALSE, memories |-> <<>>]

SeedFile(mems) == [exists |-> TRUE, memories |-> mems]

\* _load_initial_memories: one Document per entry of the seed file, none
\* when the file does not exist.
LoadInitialMemories(sd) ==
    IF ~sd.exists THEN <<>>
    ELSE [i \in 1..Len(sd.memories) |->
            LET mem == sd.memories[i]
            IN Document(mem.fact,
                        IF mem.topic = NoKey THEN "" ELSE mem.topic,
                        "initial",
                        IF mem.confidence = NoKey THEN "medium" ELSE mem.confidence)]

\* A _load_or_create that takes an index it cannot load as no index.
LoadOrCreate_rebuilds(dk, sd) ==
    IF dk.kind = "ok"
    THEN [raised |-> FALSE, vs |-> Vectorstore(dk.docs), disk |-> dk]
    ELSE LET docs == LoadInitialMemories(sd)
         IN IF docs # <<>>
            THEN [raised |-> FALSE, vs |-> Vectorstore(docs), disk |-> SavedIndex(docs)]
            ELSE [raised |-> FALSE, vs |-> NoVectorstore, disk |-> dk]

\* _load_or_create: [raised, vs, disk].
LoadOrCreate(dk, sd) ==
    IF dk.kind # "absent"
    THEN IF dk.kind = "corrupt"
         THEN [raised |-> TRUE, vs |-> NoVectorstore, disk |-> dk]
         ELSE [raised |-> FALSE, vs |-> Vectorstore(dk.docs), disk |-> dk]
    ELSE LET docs == LoadInitialMemories(sd)
         IN IF docs # <<>>
            THEN [raised |-> FALSE, vs |-> Vectorstore(docs), disk |-> SavedIndex(docs)]
            ELSE [raised |-> FALSE, vs |-> NoVectorstore, disk |-> dk]

\* LongTermMemory.__init__: the embedding function is built first (embOk
\* says whether that succeeds), then _load_or_create runs.
NewLongTermMemory(dk, sd, embOk) ==
    IF ~embOk
    THEN [raised |-> TRUE, vs |-> NoVectorstore, disk |-> dk]
    ELSE LoadOrCreate(dk, sd)

\* Embedding closeness of a stored fact to a query (larger is closer).
\* A text is closest to itself: equal texts have equal embeddings.
Sim(q, fact) ==
    IF q = fact THEN 3
    ELSE IF q = "cat" /\ fact = "cat named Mochi" THEN 2 ELSE 1

Best(docs, q, used) ==
    CHOOSE i \in (1..Len(docs)) \ used :
        \A j \in (1..Len(docs)) \ used :
            \/ Sim(q, docs[i].page_content) > Sim(q, docs[j].page_content)
            \/ /\ Sim(q, docs[i].page_content) = Sim(q, docs[j].page_content)
               /\ i <= j

RECURSIVE TopKFrom(_, _, _, _)
TopKFrom(docs, q, k, used) ==
    IF k <= 0 \/ used = 1..Len(docs) THEN <<>>
    ELSE LET i == Best(docs, q, used)
         IN <<docs[i].page_content>> \o TopKFrom(docs, q, k - 1, used \cup {i})

\* A search that returns the documents in the order they were added.
Search_insertion_order(vs, q, top_k) ==
    IF ~vs.has THEN <<>>
    ELSE [i \in 1..(IF top_k < Len(vs.docs) THEN top_k ELSE Len(vs.docs)) |->
            vs.docs[i].page_content]

\* LongTermMemory.search: the page_content of the top_k most similar documents.
Search(vs, q, top_k) ==
    IF ~vs.has THEN <<>> ELSE TopKFrom(vs.docs, q, top_k, {})

\* The in-memory effect of add_memory (lines 97-104).
AddToVectorstore(vs, fact) ==
    LET doc == Document(fact, "", "conversation", NoKey)
    IN IF vs.has THEN Vectorstore(Append(vs.docs, doc)) ELSE Vectorstore(<<doc>>)

\* An add_memory that writes the index before it adds the document.
AddMemory_saves_first(vs, dk, fact, outcome) ==
    IF outcome = "embed_fail"
    THEN [raised |-> TRUE, vs |-> vs, disk |-> dk]
    ELSE [raised |-> outcome = "save_fail",
          vs |-> IF outcome = "save_fail" THEN vs
                 ELSE IF vs.has
                      THEN Vectorstore(Append(vs.docs,
                               [page_content |-> fact, topic |-> "",
                                source |-> "conversation", confidence |-> "<missing>"]))
                      ELSE Vectorstore(<<[page_content |-> fact, topic |-> "",
                                source |-> "conversation", confidence |-> "<missing>"]>>),
          disk |-> IF outcome = "save_fail" \/ ~vs.has THEN dk
                   ELSE [kind |-> "ok", docs |-> vs.docs]]

\* add_memory: [raised, vs, disk].  outcome "embed_fail": the embedding call
\* raises before the store changes; "save_fail": save_local raises after it.
AddMemory(vs, dk, fact, outcome) ==
    IF outcome = "embed_fail"
    THEN [raised |-> TRUE, vs |-> vs, disk |-> dk]
    ELSE LET vs2 == AddToVectorstore(vs, fact)
         IN IF outcome = "save_fail"
            THEN [raised |-> TRUE, vs |-> vs2, disk |-> dk]
            ELSE [raised |-> FALSE, vs |-> vs2, disk |-> SavedIndex(vs2.docs)]

\* get_all_count
GetAllCount(vs) == IF ~vs.has THEN 0 ELSE Len(vs.docs)

----------------------------------------------------------------------------
(* agent/graph.py: the graph and its nodes *)

\* The graph with generation wired before retrieval.
build_graph_reordered ==
    { <<"START", "generate_response">>,
      <<"generate_response", "retrieve_memories">>,
      <<"retrieve_memories", "extract_memory">>,
      <<"extract_memory", "END">> }

\* build_graph: the edges of the state graph.
build_graph ==
    { <<"START", "retrieve_memories">>,
      <<"retrieve_memories", "generate_response">>,
      <<"generate_response", "extract_memory">>,
      <<"extract_memory", "END">> }

\* The node the compiled graph runs after node n.
NextNode(n) == CHOOSE m \in {e[2] : e \in build_graph} : <<n, m>> \in build_graph

\* What a node returns: the keys it sets; `messages` goes through the
\* add_messages reducer (appended), the other keys are overwritten.
NoUpdate ==
    [messages |-> <<>>, set_retrieved |-> FALSE, retrieved_memories |-> <<>>,
     set_should |-> FALSE, should_extract_memory |-> FALSE]

\* generate_response, lines 104-109: the short-term window.
Window(conversation, w) ==
    LET max_msgs == w * 2
    IN IF Len(conversation) > max_msgs
       THEN PySliceFrom(conversation, 0 - max_msgs)
       ELSE conversation

\* A reducer that keeps only the windowed transcript.
MergeTruncating(gs, upd) ==
    [messages |-> Window(gs.messages, W) \o upd.messages,
     retrieved_memories |->
        IF upd.set_retrieved THEN upd.retrieved_memories ELSE gs.retrieved_memories,
     should_extract_memory |->
        IF upd.set_should THEN upd.should_extract_memory ELSE gs.should_extract_memory]

\* A reducer that puts the messages of an update in front of the transcript.
MergePrepending(gs, upd) ==
    [messages |-> upd.messages \o gs.messages,
     retrieved_memories |->
        IF upd.set_retrieved THEN upd.retrieved_memories ELSE gs.retrieved_memories,
     should_extract_memory |->
        IF upd.set_should THEN upd.should_extract_memory ELSE gs.should_extract_memory]

\* A reducer that appends what was retrieved to what the state held.
MergeAccumulating(gs, upd) ==
    [messages |-> gs.messages \o upd.messages,
     retrieved_memories |->
        IF upd.set_retrieved
        THEN gs.retrieved_memories \o upd.retrieved_memories
        ELSE gs.retrieved_memories,
     should_extract_memory |->
        IF upd.set_should THEN upd.should_extract_memory ELSE gs.should_extract_memory]

\* AgentState, lines 16-23: how the update a node returns enters the state.
Merge(gs, upd) ==
    [messages |-> gs.messages \o upd.messages,
     retrieved_memories |->
        IF upd.set_retrieved THEN upd.retrieved_memories ELSE gs.retrieved_memories,
     should_extract_memory |->
        IF upd.set_should THEN upd.should_extract_memory ELSE gs.should_extract_memory]

\* _get_memory: the singleton, built on first use.  [raised, ltm, disk]
GetMemory(mem, dk, sd, embOk) ==
    IF mem.built
    THEN [raised |-> FALSE, ltm |-> mem, disk |-> dk]
    ELSE LET r == NewLongTermMemory(dk, sd, embOk)
         IN IF r.raised
            THEN [raised |-> TRUE, ltm |-> mem, disk |-> r.disk]
            ELSE [raised |-> FALSE, ltm |-> [built |-> TRUE, vs |-> r.vs],
                  disk |-> r.disk]

\* retrieve_memories, lines 68-72: the content of the last HumanMessage.
RECURSIVE LastHumanFrom(_, _)
LastHumanFrom(messages, i) ==
    IF i = 0 THEN ""
    ELSE IF messages[i].type = "human" THEN messages[i].content
    ELSE LastHumanFrom(messages, i - 1)

LastHuman(messages) == LastHumanFrom(messages, Len(messages))

\* retrieve_memories.  searchOk: whether the embedding of the query and the
\* similarity search succeed.  [raised, update, ltm, disk, searched]
retrieve_memories(gs, mem, dk, sd, embOk, searchOk) ==
    LET last_human == LastHuman(gs.messages)
    IN IF last_human = ""
       THEN [raised |-> FALSE, ltm |-> mem, disk |-> dk, searched |-> FALSE,
             update |-> [NoUpdate EXCEPT !.set_retrieved = TRUE]]
       ELSE LET m == GetMemory(mem, dk, sd, embOk)
            IN IF m.raised \/ (m.ltm.vs.has /\ ~searchOk)
               THEN [raised |-> TRUE, ltm |-> m.ltm, disk |-> m.disk,
                     searched |-> ~m.raised, update |-> NoUpdate]
               ELSE [raised |-> FALSE, ltm |-> m.ltm, disk |-> m.disk,
                     searched |-> TRUE,
                     update |-> [NoUpdate EXCEPT
                        !.set_retrieved = TRUE,
                        !.retrieved_memories =
                            Search(m.ltm.vs, last_human, LONG_TERM_TOP_K)]]

\* generate_response, lines 91-96: what is appended to the system prompt
\* when retrieved is not empty: the header line and one "- m" line for each
\* retrieved text, in order.
MemoryBlock(retrieved) ==
    IF retrieved = <<>> THEN <<>>
    ELSE <<[bullet |-> FALSE, text |-> "memory_header"]>>
            \o [i \in 1..Len(retrieved) |-> [bullet |-> TRUE, text |-> retrieved[i]]]

\* SystemMessage(content=full_system): the persona text and the block.
SystemMessage(persona, block) ==
    [type |-> "system", content |-> persona, block |-> block]

\* prompt.build_fewshot_messages: the examples of the few-shot file, a
\* HumanMessage and an AIMessage for each turn.
Fewshot == <<HumanMessage("example question"), AIMessage("example answer")>>

\* generate_response, lines 89-110: the prompt sent to the provider.
BuildPrompt(gs, w) ==
    [system |-> [persona |-> "system_prompt",
                 memory_lines |-> gs.retrieved_memories],
     fewshot |-> "fewshot",
     conversation |-> Window(gs.messages, w),
     messages |-> <<SystemMessage("system_prompt",
                                  MemoryBlock(gs.retrieved_memories))>>
                     \o Fewshot \o Window(gs.messages, w)]

NoPrompt ==
    [system |-> [persona |-> "", memory_lines |-> <<>>],
     fewshot |-> "", conversation |-> <<>>, messages |-> <<>>]

\* A generate_response that answers with an empty reply when the provider
\* fails.
generate_response_swallows(gs, w, out) ==
    [raised |-> FALSE, prompt |-> BuildPrompt(gs, w),
     update |-> [NoUpdate EXCEPT
        !.messages = <<AIMessage(out.content)>>,
        !.set_should = TRUE,
        !.should_extract_memory = TRUE]]

\* A generate_response that returns the reply twice.
generate_response_twice(gs, w, out) ==
    IF out.raised
    THEN [raised |-> TRUE, prompt |-> BuildPrompt(gs, w), update |-> NoUpdate]
    ELSE [raised |-> FALSE, prompt |-> BuildPrompt(gs, w),
          update |-> [NoUpdate EXCEPT
             !.messages = <<AIMessage(out.content), AIMessage(out.content)>>,
             !.set_should = TRUE,
             !.should_extract_memory = TRUE]]

\* generate_response.  out: what llm.invoke does, [raised, content].
\* [raised, prompt, update]
generate_response(gs, w, out) ==
    IF out.raised
    THEN [raised |-> TRUE, prompt |-> BuildPrompt(gs, w), update |-> NoUpdate]
    ELSE [raised |-> FALSE, prompt |-> BuildPrompt(gs, w),
          update |-> [NoUpdate EXCEPT
             !.messages = <<AIMessage(out.content)>>,
             !.set_should = TRUE,
             !.should_extract_memory = TRUE]]

\* extract_memory, lines 131-139: the texts handed to the extractor.
RECURSIVE LastExchangeFrom(_, _, _, _)
LastExchangeFrom(messages, i, last_human, last_ai) ==
    IF i = 0 THEN [last_human |-> last_human, last_ai |-> last_ai]
    ELSE LET msg == messages[i]
             takeAi == msg.type = "ai" /\ last_ai = ""
             takeHuman == ~takeAi /\ msg.type = "human" /\ last_human = ""
             ai2 == IF takeAi THEN msg.content ELSE last_ai
             human2 == IF takeHuman THEN msg.content ELSE last_human
         IN IF human2 # "" /\ ai2 # ""
            THEN [last_human |-> human2, last_ai |-> ai2]
            ELSE LastExchangeFrom(messages, i - 1, human2, ai2)

LastExchange(messages) == LastExchangeFrom(messages, Len(messages), "", "")

\* The reply of the extractor is a sequence of lines; a line is a fence line
\* (three backticks, with or without a language tag) or a piece of JSON text.
IsFence(line) == line \in {"<fence>", "<fence>json"}

\* Index of the last fence line of lines, 0 when there is none.
RECURSIVE LastFence(_, _)
LastFence(lines, i) ==
    IF i = 0 THEN 0
    ELSE IF IsFence(lines[i]) THEN i
    ELSE LastFence(lines, i - 1)

\* A parser that hands the reply to json.loads as it came.
StripFence_absent(lines) == lines

\* extract_memory, lines 168-169: when the content starts with a fence, drop
\* the first line (split at the first newline, keep the last part) and then
\* everything from the last fence on (rsplit at the last fence, keep part 0).
StripFence(lines) ==
    IF lines = <<>> \/ ~IsFence(lines[1]) THEN lines
    ELSE LET rest == IF Len(lines) = 1 THEN lines ELSE Tail(lines)
             k == LastFence(rest, Len(rest))
         IN IF k = 0 THEN rest ELSE SubSeq(rest, 1, k - 1)

JsonItem(isStr, text) == [isStr |-> isStr, text |-> text]

Malformed == [kind |-> "malformed", items |-> <<>>]

\* json.loads on the JSON texts the model uses.
JsonLoads(lines) ==
    IF Len(lines) # 1 THEN Malformed
    ELSE CASE lines[1] = "[]" -> [kind |-> "array", items |-> <<>>]
           [] lines[1] = "[\"cat named Mochi\"]" ->
                [kind |-> "array", items |-> <<JsonItem(TRUE, "cat named Mochi")>>]
           [] lines[1] = "[\"likes tea\"]" ->
                [kind |-> "array", items |-> <<JsonItem(TRUE, "likes tea")>>]
           [] lines[1] = "[\"likes tea\", \"cat named Mochi\"]" ->
                [kind |-> "array",
                 items |-> <<JsonItem(TRUE, "likes tea"),
                             JsonItem(TRUE, "cat named Mochi")>>]
           [] lines[1] = "[\"tea\", \"abcdef\"]" ->
                [kind |-> "array",
                 items |-> <<JsonItem(TRUE, "tea"), JsonItem(TRUE, "abcdef")>>]
           [] lines[1] = "[42, \"abcde\"]" ->
                [kind |-> "array",
                 items |-> <<JsonItem(FALSE, "42"), JsonItem(TRUE, "abcde")>>]
           [] lines[1] = "{\"fact\": \"likes tea\"}" ->
                [kind |-> "object", items |-> <<>>]
           [] OTHER -> Malformed

\* A loop that stops after the first fact it writes.
AddFacts_first_only(items, i, vs, dk, addOut, calls) ==
    LET kept == {j \in i..Len(items) : items[j].isStr /\ StrLen(items[j].text) > 5}
    IN IF kept = {}
       THEN [raised |-> FALSE, vs |-> vs, disk |-> dk, calls |-> calls]
       ELSE LET j == CHOOSE x \in kept : \A y \in kept : x <= y
                r == AddMemory(vs, dk, items[j].text, addOut[calls + 1])
            IN [raised |-> r.raised, vs |-> r.vs, disk |-> r.disk,
                calls |-> calls + 1]

\* extract_memory, lines 174-176: one add_memory call per accepted fact, the
\* loop ending at the first call that raises.  [raised, vs, disk, calls]
RECURSIVE AddFacts(_, _, _, _, _, _)
AddFacts(items, i, vs, dk, addOut, calls) ==
    IF i > Len(items)
    THEN [raised |-> FALSE, vs |-> vs, disk |-> dk, calls |-> calls]
    ELSE IF items[i].isStr /\ StrLen(items[i].text) > 5
    THEN LET r == AddMemory(vs, dk, items[i].text, addOut[calls + 1])
         IN IF r.raised
            THEN [raised |-> TRUE, vs |-> r.vs, disk |-> r.disk, calls |-> calls + 1]
            ELSE AddFacts(items, i + 1, r.vs, r.disk, addOut, calls + 1)
    ELSE AddFacts(items, i + 1, vs, dk, addOut, calls)

\* extract_memory, lines 161-178: the try block.  xout: what
\* llm.invoke(extract_prompt) does, [raised, lines].  The expression
\* of the handler, (json.JSONDecodeError, Exception) reads the function-local
\* name json, which `import json` on line 166 binds: an exception raised on
\* lines 162-163 reaches the handler before that, so evaluating the
\* handler expression raises UnboundLocalError, which leaves the node.
\* [raised, ltm, disk, calls, addRaised, items]: addRaised tells that an
\* add_memory call raised (and ended the loop), items are the parsed facts.
ExtractTry(mem, dk, sd, xout, embOk, addOut) ==
    IF xout.raised
    THEN [raised |-> TRUE, ltm |-> mem, disk |-> dk, calls |-> 0,
          addRaised |-> FALSE, items |-> <<>>]
    ELSE LET facts == JsonLoads(StripFence(xout.lines))
         IN IF facts.kind # "array"
            THEN [raised |-> FALSE, ltm |-> mem, disk |-> dk, calls |-> 0,
                  addRaised |-> FALSE, items |-> <<>>]
            ELSE LET m == GetMemory(mem, dk, sd, embOk)
                 IN IF m.raised
                    THEN [raised |-> FALSE, ltm |-> m.ltm, disk |-> m.disk,
                          calls |-> 0, addRaised |-> FALSE, items |-> facts.items]
                    ELSE LET r == AddFacts(facts.items, 1, m.ltm.vs, m.disk, addOut, 0)
                         IN [raised |-> FALSE,
                             ltm |-> [built |-> TRUE, vs |-> r.vs],
                             disk |-> r.disk, calls |-> r.calls,
                             addRaised |-> r.raised, items |-> facts.items]

ShouldFalse == [NoUpdate EXCEPT !.set_should = TRUE]

\* An extract_memory that runs the extraction whenever the flag is set.
extract_memory_ungated(gs, mem, dk, sd, xout, embOk, addOut) ==
    IF ~gs.should_extract_memory
    THEN [raised |-> FALSE, update |-> NoUpdate, ltm |-> mem, disk |-> dk,
          invoked |-> FALSE, calls |-> 0, addRaised |-> FALSE, items |-> <<>>,
          exchange |-> [last_human |-> "", last_ai |-> ""]]
    ELSE LET t == ExtractTry(mem, dk, sd, xout, embOk, addOut)
         IN [raised |-> t.raised,
             update |-> IF t.raised THEN NoUpdate ELSE ShouldFalse,
             ltm |-> t.ltm, disk |-> t.disk,
             invoked |-> TRUE, calls |-> t.calls, addRaised |-> t.addRaised,
             items |-> t.items, exchange |-> LastExchange(gs.messages)]

\* An extract_memory whose early returns leave should_extract_memory as it is.
extract_memory_keeps_flag(gs, mem, dk, sd, xout, embOk, addOut) ==
    LET skip(upd) ==
            [raised |-> FALSE, update |-> upd, ltm |-> mem, disk |-> dk,
             invoked |-> FALSE, calls |-> 0, addRaised |-> FALSE, items |-> <<>>,
             exchange |-> [last_human |-> "", last_ai |-> ""]]
        ex == LastExchange(gs.messages)
    IN IF ~gs.should_extract_memory THEN skip(NoUpdate)
       ELSE IF Len(gs.messages) < 2 THEN skip(NoUpdate)
       ELSE IF ex.last_human = "" \/ ex.last_ai = "" THEN skip(NoUpdate)
       ELSE LET t == ExtractTry(mem, dk, sd, xout, embOk, addOut)
            IN [raised |-> t.raised,
                update |-> IF t.raised THEN NoUpdate ELSE ShouldFalse,
                ltm |-> t.ltm, disk |-> t.disk,
                invoked |-> TRUE, calls |-> t.calls, addRaised |-> t.addRaised,
                items |-> t.items, exchange |-> ex]

\* extract_memory.
\* [raised, update, ltm, disk, invoked, calls, addRaised, items, exchange]
extract_memory(gs, mem, dk, sd, xout, embOk, addOut) ==
    LET skip(upd) ==
            [raised |-> FALSE, update |-> upd, ltm |-> mem, disk |-> dk,
             invoked |-> FALSE, calls |-> 0, addRaised |-> FALSE, items |-> <<>>,
             exchange |-> [last_human |-> "", last_ai |-> ""]]
        ex == LastExchange(gs.messages)
    IN IF ~gs.should_extract_memory THEN skip(NoUpdate)
       ELSE IF Len(gs.messages) < 2 THEN skip(ShouldFalse)
       ELSE IF ex.last_human = "" \/ ex.last_ai = "" THEN skip(ShouldFalse)
       ELSE LET t == ExtractTry(mem, dk, sd, xout, embOk, addOut)
            IN [raised |-> t.raised,
                update |-> IF t.raised THEN NoUpdate ELSE ShouldFalse,
                ltm |-> t.ltm, disk |-> t.disk,
                invoked |-> TRUE, calls |-> t.calls, addRaised |-> t.addRaised,
                items |-> t.items, exchange |-> ex]

----------------------------------------------------------------------------
(* The environment: stores, provider outcomes *)

SeedMemories ==
    <<[fact |-> "cat named Mochi", topic |-> "pets", confidence |-> NoKey]>>

InitialStores ==
    { <<NoIndex, NoSeedFile>>,
      <<NoIndex, SeedFile(SeedMemories)>>,
      <<CorruptIndex, SeedFile(SeedMemories)>> }

GenerationOutcomes ==
    {[raised |-> TRUE, content |-> ""]}
        \cup {[raised |-> FALSE, content |-> c] : c \in Replies}

ExtractorReplies ==
    { <<"[]">>,
      <<"[\"cat named Mochi\"]">>,
      <<"<fence>json", "[\"likes tea\"]", "<fence>">>,
      <<"[\"tea\", \"abcdef\"]">>,
      <<"[\"cat named Mochi\"">>,
      <<"{\"fact\": \"likes tea\"}">> }

ExtractorOutcomes ==
    {[raised |-> TRUE, lines |-> <<>>]}
        \cup {[raised |-> FALSE, lines |-> l] : l \in ExtractorReplies}

MaxFacts == 2

\* The outcomes of the add_memory calls of one extraction, in call order: all
\* succeed, or call number failAt fails in the way `how`.
AddOutcomes ==
    {[i \in 1..MaxFacts |-> "ok"]}
        \cup {[i \in 1..MaxFacts |-> IF i = failAt THEN how ELSE "ok"] :
                 failAt \in 1..MaxFacts, how \in {"embed_fail", "save_fail"}}

\* Whether building the singleton succeeds matters only while it is unbuilt.
EmbedOutcomes(mem) == IF mem.built THEN {TRUE} ELSE BOOLEAN

NoShown == [kind |-> "none", text |-> "", count |-> 0]

\* What the nodes of a turn did with their collaborators: whether
\* retrieve_memories called memory.search and with which query; the texts
\* extract_memory put into the extraction prompt; the lines of the
\* extractor's reply; what each add_memory call of the extraction did.
NoIo == [searched |-> FALSE, query |-> "", last_human |-> "", last_ai |-> "",
         lines |-> <<>>, adds |-> <<>>]

----------------------------------------------------------------------------
(* fullversion/bot: the chat history of the QQ and WeChat bots *)

\* qq_bot.py, line 53; wechat_bot.py, line 46.
MAX_PRIVATE_TURNS == 10

\* qq_bot.py, line 54; wechat_bot.py, line 47.
MAX_GROUP_TURNS == 5

\* Messages handled in one run of the bot, all chats together.
MaxBotMsgs == 12

\* The chats the bot receives messages from: two private chats and one
\* member of one group.
BotEvents ==
    {[group_id |-> "", user_id |-> "u1"],
     [group_id |-> "", user_id |-> "u2"],
     [group_id |-> "g1", user_id |-> "u1"]}

\* get_key: f"{group_id}_{user_id}" for a group message, str(user_id)
\* otherwise.
get_key(ev) ==
    IF ev.group_id # ""
    THEN CASE ev.group_id = "g1" /\ ev.user_id = "u1" -> "g1_u1"
           [] OTHER -> "other_group"
    ELSE ev.user_id

BotKeys == {get_key(ev) : ev \in BotEvents}

\* The text of the n-th message of chat key, and of the reply to it.
Text(key, n) == [from |-> key, n |-> n]

Entry(role, content) == [role |-> role, content |-> content]

\* `_history = {}`
NoHistory == [k \in {} |-> <<>>]

\* get_history: _history.get(key, [])
get_history(h, key) == IF key \in DOMAIN h THEN h[key] ELSE <<>>

\* An update_history that drops the oldest exchange once the limit is
\* reached, before appending.
update_history_drops_early(h, key, user_msg, bot_reply, max_turns) ==
    LET old == IF key \in DOMAIN h THEN h[key] ELSE <<>>
        cut == IF Len(old) >= max_turns * 2 - 2
               THEN PySliceFrom(old, 2) ELSE old
        new == cut \o <<Entry("user", user_msg), Entry("assistant", bot_reply)>>
    IN [k \in DOMAIN h \cup {key} |-> IF k = key THEN new ELSE h[k]]

\* update_history: setdefault, two appends, and the slice that keeps the
\* last max_turns * 2 entries.
update_history(h, key, user_msg, bot_reply, max_turns) ==
    LET old == IF key \in DOMAIN h THEN h[key] ELSE <<>>
        appended == old \o <<Entry("user", user_msg),
                            Entry("assistant", bot_reply)>>
        new == IF Len(appended) > max_turns * 2
               THEN PySliceFrom(appended, 0 - (max_turns * 2))
               ELSE appended
    IN [k \in DOMAIN h \cup {key} |-> IF k = key THEN new ELSE h[k]]

\* A clear_history that empties the whole dictionary.
clear_history_all(h, key) == NoHistory

\* clear_history: _history.pop(key, None)
clear_history(h, key) == [k \in DOMAIN h \ {key} |-> h[k]]

\* raymond_core.build_prompt on the history of the chat: the system block,
\* one block per history entry in order, the user block of the new message
\* and the opening of the assistant block.
build_prompt(h, key, user_input) ==
    [system |-> "SYSTEM_PROMPT",
     turns |-> get_history(h, key) \o <<Entry("user", user_input)>>]

\* Per chat: the handler call in progress or finished last.
NoCall == [kind |-> "none", ev |-> [group_id |-> "", user_id |-> ""],
           user_input |-> Text("", 0), reply |-> Text("", 0),
           prompt |-> [system |-> "", turns |-> <<>>]]

NoSent == [k \in BotKeys |-> NoCall]

NoRecorded == [k \in BotKeys |-> [n |-> 0, since |-> <<>>]]

botVars == <<history, sent, recorded>>

\* No bot is running.
BotOff ==
    /\ history = NoHistory
    /\ sent = NoSent
    /\ recorded = NoRecorded

lazyVars == <<single, made, sess>>

wxVars == <<href, lists, wx>>

dataVars == <<raw_data, cleaned, chatlog, finetune_data, distill>>

sideVars == <<lazyVars, wxVars, dataVars>>

\* No session thread is in a getter of graph.py.
LazyOff ==
    /\ single = <<>>
    /\ made = <<>>
    /\ sess = <<>>

\* No handler thread of wechat_bot.py is running.
WxOff ==
    /\ href = <<>>
    /\ lists = <<>>
    /\ wx = <<>>

\* None of the data scripts is running.
DataOff ==
    /\ raw_data = <<>>
    /\ cleaned = <<>>
    /\ chatlog = <<>>
    /\ finetune_data = <<>>
    /\ distill = <<>>

SideOff == LazyOff /\ WxOff /\ DataOff

----------------------------------------------------------------------------
(* chat.py: the session loop *)

turnVars == <<trace, pre, failed, genCalls, extractCalls, addCalls, pending,
              fault, xkind, addFailed, xitems, io>>

addVars == <<tpc, tfact, vs0>>

storeVars == <<hist, op>>

NoCmdOut == [kind |-> "none", q |-> "", count |-> 0, results |-> <<>>]

NoHist == [adds |-> <<>>, loaded |-> 0, okAdds |-> 0, seedInserts |-> 0,
         inits |-> 0, steps |-> 0]

NoOp == [kind |-> "none", raised |-> FALSE, fact |-> "", q |-> "", k |-> 0,
         result |-> <<>>, before |-> 0, count |-> 0, seeded |-> FALSE,
         diskBefore |-> "absent"]

Init ==
    /\ W \in 0..MaxW
    /\ pc = "Start"
    /\ state = EmptyState
    /\ g = EmptyState
    /\ ltm = [built |-> FALSE, vs |-> NoVectorstore]
    /\ \E st \in InitialStores : disk = st[1] /\ seed = st[2]
    /\ shown = NoShown
    /\ prompt = NoPrompt
    /\ turns = 0
    /\ trace = <<>>
    /\ pre = EmptyState
    /\ failed = "none"
    /\ genCalls = 0
    /\ extractCalls = 0
    /\ addCalls = 0
    /\ everAppended = <<>>
    /\ pending = <<>>
    /\ fault = "none"
    /\ xkind = "none"
    /\ tpc = [t \in Threads |-> "off"]
    /\ tfact = [t \in Threads |-> ""]
    /\ vs0 = <<>>
    /\ disk0 = disk
    /\ addFailed = FALSE
    /\ xitems = <<>>
    /\ cmdOut = NoCmdOut
    /\ hist = NoHist
    /\ op = NoOp
    /\ io = NoIo
    /\ BotOff
    /\ SideOff

\* main, lines 27-32: a LongTermMemory of its own, built to print the count;
\* a failure is printed and the loop starts all the same.
Startup ==
    /\ pc = "Start"
    /\ \E embOk \in BOOLEAN :
         LET r == NewLongTermMemory(disk, seed, embOk)
         IN /\ disk' = r.disk
            /\ shown' = IF r.raised
                        THEN [kind |-> "load_error", text |-> "", count |-> 0]
                        ELSE [kind |-> "count", text |-> "",
                              count |-> GetAllCount(r.vs)]
    /\ pc' = "Idle"
    /\ UNCHANGED <<W, state, g, ltm, seed, prompt, turns, everAppended, disk0,
                   cmdOut>>
    /\ UNCHANGED turnVars
    /\ UNCHANGED addVars
    /\ UNCHANGED <<botVars, sideVars>>
    /\ UNCHANGED storeVars

\* A /clear that also drops the long-term memory and its index.
Clear_drops_store ==
    /\ pc = "Idle"
    /\ state # EmptyState
    /\ state' = EmptyState
    /\ g' = EmptyState
    /\ everAppended' = <<>>
    /\ shown' = [kind |-> "cleared", text |-> "", count |-> 0]
    /\ ltm' = [built |-> FALSE, vs |-> NoVectorstore]
    /\ disk' = NoIndex
    /\ UNCHANGED <<W, pc, seed, turns, disk0, prompt, cmdOut>>
    /\ UNCHANGED turnVars
    /\ UNCHANGED addVars
    /\ UNCHANGED storeVars
    /\ UNCHANGED <<botVars, sideVars>>

\* main, lines 64-71: /clear.
Clear ==
    /\ pc = "Idle"
    /\ state # EmptyState
    /\ state' = EmptyState
    /\ g' = EmptyState
    /\ everAppended' = <<>>
    /\ shown' = [kind |-> "cleared", text |-> "", count |-> 0]
    /\ trace' = <<>>
    /\ pre' = EmptyState
    /\ failed' = "none"
    /\ fault' = "none"
    /\ xkind' = "none"
    /\ genCalls' = 0
    /\ extractCalls' = 0
    /\ addCalls' = 0
    /\ pending' = <<>>
    /\ prompt' = NoPrompt
    /\ addFailed' = FALSE
    /\ xitems' = <<>>
    /\ cmdOut' = NoCmdOut
    /\ io' = NoIo
    /\ UNCHANGED <<W, pc, ltm, disk, seed, turns, disk0>>
    /\ UNCHANGED addVars
    /\ UNCHANGED <<botVars, sideVars>>
    /\ UNCHANGED storeVars

\* main, lines 75-80: the utterance is appended to state and agent.invoke
\* starts on it.
UserInputUpTo(n) ==
    /\ pc = "Idle"
    /\ turns < n
    /\ \E u \in UserTexts :
         /\ state' = [state EXCEPT !.messages = Append(@, HumanMessage(u))]
         /\ g' = state'
         /\ everAppended' = Append(everAppended, HumanMessage(u))
    /\ pre' = state
    /\ pc' = NextNode("START")
    /\ turns' = turns + 1
    /\ trace' = <<>>
    /\ failed' = "none"
    /\ fault' = "none"
    /\ xkind' = "none"
    /\ genCalls' = 0
    /\ extractCalls' = 0
    /\ addCalls' = 0
    /\ pending' = <<>>
    /\ shown' = NoShown
    /\ addFailed' = FALSE
    /\ xitems' = <<>>
    /\ cmdOut' = NoCmdOut
    /\ io' = NoIo
    /\ UNCHANGED <<W, ltm, disk, seed, prompt, disk0>>
    /\ UNCHANGED addVars
    /\ UNCHANGED <<botVars, sideVars>>
    /\ UNCHANGED storeVars

UserInput == UserInputUpTo(MaxTurns)

\* main, lines 89-91: agent.invoke raised; the error is printed and state
\* keeps the value it had when invoke was called.
Abort(node) ==
    /\ pc' = "Idle"
    /\ g' = state
    /\ failed' = node
    /\ pending' = <<>>
    /\ shown' = [kind |-> "error", text |-> "", count |-> 0]
    /\ UNCHANGED <<state, everAppended>>

\* The node returned: the graph moves to the next node, or, at END, invoke
\* returns and main (lines 81-87) takes the result as the new state and
\* prints the last message when it is an AIMessage.
Advance(g2, appended) ==
    /\ failed' = failed
    /\ IF NextNode(pc) = "END"
       THEN /\ pc' = "Idle"
            /\ state' = g2
            /\ g' = g2
            /\ everAppended' = everAppended \o pending \o appended
            /\ pending' = <<>>
            /\ shown' =
                 IF g2.messages[Len(g2.messages)].type = "ai"
                 THEN [kind |-> "reply",
                       text |-> g2.messages[Len(g2.messages)].content, count |-> 0]
                 ELSE NoShown
       ELSE /\ pc' = NextNode(pc)
            /\ g' = g2
            /\ pending' = pending \o appended
            /\ UNCHANGED <<state, everAppended, shown>>

RetrieveFault(r, embOk) ==
    IF ~r.raised THEN "none"
    ELSE IF r.searched THEN "search"
    ELSE IF ~embOk THEN "embedding"
    ELSE "corrupt"

Retrieve ==
    /\ pc = "retrieve_memories"
    /\ \E embOk \in EmbedOutcomes(ltm), searchOk \in BOOLEAN :
         \E r \in {retrieve_memories(g, ltm, disk, seed, embOk, searchOk)} :
            /\ ltm' = r.ltm
            /\ disk' = r.disk
            /\ fault' = RetrieveFault(r, embOk)
            /\ io' = [io EXCEPT !.searched = r.searched,
                                !.query = IF r.searched
                                          THEN LastHuman(g.messages) ELSE ""]
            /\ IF r.raised THEN Abort(pc) ELSE Advance(Merge(g, r.update), <<>>)
    /\ trace' = Append(trace, pc)
    /\ UNCHANGED <<W, seed, prompt, turns, pre, genCalls, extractCalls, addCalls,
                   xkind, disk0, addFailed, xitems, cmdOut>>
    /\ UNCHANGED addVars
    /\ UNCHANGED <<botVars, sideVars>>
    /\ UNCHANGED storeVars

Generate ==
    /\ pc = "generate_response"
    /\ \E out \in GenerationOutcomes :
         \E r \in {generate_response(g, W, out)} :
            /\ prompt' = r.prompt
            /\ fault' = IF out.raised THEN "generation" ELSE fault
            /\ IF r.raised THEN Abort(pc)
               ELSE Advance(Merge(g, r.update), r.update.messages)
    /\ genCalls' = genCalls + 1
    /\ trace' = Append(trace, pc)
    /\ UNCHANGED <<W, ltm, disk, seed, turns, pre, extractCalls, addCalls, xkind,
                   disk0, addFailed, xitems, cmdOut, io>>
    /\ UNCHANGED addVars
    /\ UNCHANGED <<botVars, sideVars>>
    /\ UNCHANGED storeVars

ExtractKind(r, xout) ==
    IF ~r.invoked THEN "skipped"
    ELSE IF xout.raised THEN "provider_failed"
    ELSE JsonLoads(StripFence(xout.lines)).kind

ExtractFrom(outcomes) ==
    /\ pc = "extract_memory"
    /\ \E xout \in outcomes, embOk \in EmbedOutcomes(ltm),
          addOut \in AddOutcomes :
         \E r \in {extract_memory(g, ltm, disk, seed, xout, embOk, addOut)} :
            /\ ltm' = r.ltm
            /\ disk' = r.disk
            /\ extractCalls' = extractCalls + (IF r.invoked THEN 1 ELSE 0)
            /\ addCalls' = addCalls + r.calls
            /\ xkind' = ExtractKind(r, xout)
            /\ addFailed' = r.addRaised
            /\ xitems' = r.items
            /\ io' = [io EXCEPT
                        !.last_human = IF r.invoked THEN r.exchange.last_human
                                       ELSE "",
                        !.last_ai = IF r.invoked THEN r.exchange.last_ai ELSE "",
                        !.lines = IF r.invoked /\ ~xout.raised THEN xout.lines
                                  ELSE <<>>,
                        !.adds = [i \in 1..r.calls |-> addOut[i]]]
            /\ fault' = IF r.invoked /\ xout.raised THEN "extractor" ELSE fault
            /\ IF r.raised THEN Abort(pc) ELSE Advance(Merge(g, r.update), <<>>)
    /\ trace' = Append(trace, pc)
    /\ UNCHANGED <<W, seed, prompt, turns, pre, genCalls, disk0, cmdOut>>
    /\ UNCHANGED addVars
    /\ UNCHANGED <<botVars, sideVars>>
    /\ UNCHANGED storeVars

Extract == ExtractFrom(ExtractorOutcomes)

Next == Startup \/ Clear \/ UserInput \/ Retrieve \/ Generate \/ Extract

Spec == Init /\ [][Next]_vars

----------------------------------------------------------------------------
(* chat.py: the session loop with the /memory and /search commands *)

\* handle_command, line 113: mem.search(query, top_k=5)
SEARCH_CMD_TOP_K == 5

CmdQueries == {"cat", "likes tea"}

cmdRest ==
    <<W, pc, state, g, ltm, seed, shown, prompt, turns, everAppended, disk0>>

\* handle_command, lines 99-104: /memory constructs a LongTermMemory of its
\* own on FAISS_INDEX_PATH and prints its count, or the failure.
CmdMemory ==
    /\ pc = "Idle"
    /\ \E embOk \in BOOLEAN :
         LET r == NewLongTermMemory(disk, seed, embOk)
         IN /\ disk' = r.disk
            /\ cmdOut' = IF r.raised
                         THEN [NoCmdOut EXCEPT !.kind = "failed"]
                         ELSE [NoCmdOut EXCEPT !.kind = "count",
                                               !.count = GetAllCount(r.vs)]
    /\ UNCHANGED cmdRest
    /\ UNCHANGED turnVars
    /\ UNCHANGED addVars
    /\ UNCHANGED <<botVars, sideVars>>
    /\ UNCHANGED storeVars

\* handle_command, lines 106-121: /search <query> constructs a
\* LongTermMemory of its own and prints what search(query, top_k=5) returns,
\* or the failure.
CmdSearch ==
    /\ pc = "Idle"
    /\ \E q \in CmdQueries, embOk \in BOOLEAN, searchOk \in BOOLEAN :
         LET r == NewLongTermMemory(disk, seed, embOk)
         IN /\ disk' = r.disk
            /\ cmdOut' = IF r.raised \/ (r.vs.has /\ ~searchOk)
                         THEN [NoCmdOut EXCEPT !.kind = "failed", !.q = q]
                         ELSE [NoCmdOut EXCEPT
                                  !.kind = "results", !.q = q,
                                  !.results = Search(r.vs, q, SEARCH_CMD_TOP_K)]
    /\ UNCHANGED cmdRest
    /\ UNCHANGED turnVars
    /\ UNCHANGED addVars
    /\ UNCHANGED <<botVars, sideVars>>
    /\ UNCHANGED storeVars

MaxCmdTurns == 1

\* The extractor replies of Spec and one of two facts that are both kept.
CmdExtractorOutcomes ==
    ExtractorOutcomes
        \cup {[raised |-> FALSE,
                lines |-> <<"[\"likes tea\", \"cat named Mochi\"]">>]}

\* A session on a path that holds no index when the program starts.
InitCmd == Init /\ W = MaxW /\ disk.kind = "absent"

CmdUserInput == UserInputUpTo(MaxCmdTurns)

CmdExtract == ExtractFrom(CmdExtractorOutcomes)

NextCmd ==
    \/ Startup
    \/ Clear
    \/ CmdUserInput
    \/ Retrieve
    \/ Generate
    \/ CmdExtract
    \/ CmdMemory
    \/ CmdSearch

SpecCmd == InitCmd /\ [][NextCmd]_vars

----------------------------------------------------------------------------
(* Concurrent add_memory calls on one LongTermMemory *)

AdderFacts == {"cat named Mochi", "likes tea"}

\* The stores the singleton can hold before the adds: never built an index
\* (no index on disk, no seed), or loaded with the documents on disk.
AdderStores ==
    { <<NoVectorstore, NoIndex>>,
      <<Vectorstore(LoadInitialMemories(SeedFile(SeedMemories))),
        SavedIndex(LoadInitialMemories(SeedFile(SeedMemories)))>> }

InitAdd ==
    /\ W = 0
    /\ pc = "Adders"
    /\ state = EmptyState
    /\ g = EmptyState
    /\ \E st \in AdderStores :
         /\ ltm = [built |-> TRUE, vs |-> st[1]]
         /\ disk = st[2]
         /\ vs0 = st[1].docs
    /\ seed = NoSeedFile
    /\ shown = NoShown
    /\ prompt = NoPrompt
    /\ turns = 0
    /\ trace = <<>>
    /\ pre = EmptyState
    /\ failed = "none"
    /\ genCalls = 0
    /\ extractCalls = 0
    /\ addCalls = 0
    /\ everAppended = <<>>
    /\ pending = <<>>
    /\ fault = "none"
    /\ xkind = "none"
    /\ tpc = [t \in Threads |-> "call"]
    /\ tfact \in [Threads -> AdderFacts]
    /\ disk0 = disk
    /\ addFailed = FALSE
    /\ xitems = <<>>
    /\ cmdOut = NoCmdOut
    /\ hist = NoHist
    /\ op = NoOp
    /\ io = NoIo
    /\ BotOff
    /\ SideOff

sessionVars ==
    <<W, pc, state, g, seed, shown, prompt, turns, trace, pre, failed, genCalls,
      extractCalls, addCalls, everAppended, pending, fault, xkind, disk0,
      addFailed, xitems, cmdOut, io>>

\* add_memory, line 101: the test of self.vectorstore.
AddCheck(t) ==
    /\ tpc[t] = "call"
    /\ tpc' = [tpc EXCEPT ![t] = IF ltm.vs.has THEN "append" ELSE "create"]
    /\ UNCHANGED <<ltm, disk, tfact, vs0>>
    /\ UNCHANGED sessionVars
    /\ UNCHANGED <<botVars, sideVars>>
    /\ UNCHANGED storeVars

\* add_memory, line 102: add_documents on the store that is there (the
\* library call is taken as one step).
AddAppend(t) ==
    /\ tpc[t] = "append"
    /\ ltm' = [ltm EXCEPT !.vs = AddToVectorstore(ltm.vs, tfact[t])]
    /\ tpc' = [tpc EXCEPT ![t] = "save"]
    /\ UNCHANGED <<disk, tfact, vs0>>
    /\ UNCHANGED sessionVars
    /\ UNCHANGED <<botVars, sideVars>>
    /\ UNCHANGED storeVars

\* add_memory, line 104: a new store holding the one document is assigned.
AddCreate(t) ==
    /\ tpc[t] = "create"
    /\ ltm' = [ltm EXCEPT !.vs = AddToVectorstore(NoVectorstore, tfact[t])]
    /\ tpc' = [tpc EXCEPT ![t] = "save"]
    /\ UNCHANGED <<disk, tfact, vs0>>
    /\ UNCHANGED sessionVars
    /\ UNCHANGED <<botVars, sideVars>>
    /\ UNCHANGED storeVars

\* add_memory, line 105: save_local writes the store as it is now (the
\* library call is taken as one step).
AddSave(t) ==
    /\ tpc[t] = "save"
    /\ disk' = SavedIndex(ltm.vs.docs)
    /\ tpc' = [tpc EXCEPT ![t] = "done"]
    /\ UNCHANGED <<ltm, tfact, vs0>>
    /\ UNCHANGED sessionVars
    /\ UNCHANGED <<botVars, sideVars>>
    /\ UNCHANGED storeVars

NextAdd ==
    \E t \in Threads : AddCheck(t) \/ AddAppend(t) \/ AddCreate(t) \/ AddSave(t)

SpecAdd == InitAdd /\ [][NextAdd]_vars

----------------------------------------------------------------------------
(* One LongTermMemory at a time on one path: restarts, adds, searches *)

MaxOps == 3

StoreQueries == {"cat", "likes tea"}

\* resources/raymond_memories.json: missing, with no memories, with memories
SeedFiles == {NoSeedFile, SeedFile(<<>>), SeedFile(SeedMemories)}

InitStore ==
    /\ W = 0
    /\ pc = "Store"
    /\ state = EmptyState
    /\ g = EmptyState
    /\ ltm = [built |-> FALSE, vs |-> NoVectorstore]
    /\ disk \in {NoIndex, CorruptIndex}
    /\ seed \in SeedFiles
    /\ shown = NoShown
    /\ prompt = NoPrompt
    /\ turns = 0
    /\ trace = <<>>
    /\ pre = EmptyState
    /\ failed = "none"
    /\ genCalls = 0
    /\ extractCalls = 0
    /\ addCalls = 0
    /\ everAppended = <<>>
    /\ pending = <<>>
    /\ fault = "none"
    /\ xkind = "none"
    /\ tpc = [t \in Threads |-> "off"]
    /\ tfact = [t \in Threads |-> ""]
    /\ vs0 = <<>>
    /\ disk0 = disk
    /\ addFailed = FALSE
    /\ xitems = <<>>
    /\ cmdOut = NoCmdOut
    /\ hist = NoHist
    /\ op = NoOp
    /\ io = NoIo
    /\ BotOff
    /\ SideOff

restVars ==
    <<W, pc, state, g, shown, prompt, turns, trace, pre, failed, genCalls,
      extractCalls, addCalls, everAppended, pending, fault, xkind, disk0,
      addFailed, xitems, cmdOut, io>>

\* The process (re)starts and constructs LongTermMemory(path): __init__ and
\* _load_or_create.  The handle of the process before is gone.
StoreOpen ==
    /\ pc = "Store"
    /\ hist.steps < MaxOps
    /\ \E embOk \in BOOLEAN :
         LET r == NewLongTermMemory(disk, seed, embOk)
             seeded == ~r.raised /\ disk.kind = "absent" /\ r.vs.has
         IN /\ ltm' = [built |-> ~r.raised, vs |-> r.vs]
            /\ disk' = r.disk
            /\ hist' = IF r.raised
                       THEN [hist EXCEPT !.steps = @ + 1, !.loaded = 0,
                                         !.okAdds = 0]
                       ELSE [hist EXCEPT !.steps = @ + 1,
                                         !.loaded = GetAllCount(r.vs),
                                         !.okAdds = 0,
                                         !.inits = @ + 1,
                                         !.seedInserts =
                                             @ + (IF seeded THEN 1 ELSE 0)]
            /\ op' = [NoOp EXCEPT !.kind = "open", !.raised = r.raised,
                                  !.seeded = seeded, !.diskBefore = disk.kind,
                                  !.count = GetAllCount(r.vs)]
    /\ UNCHANGED seed
    /\ UNCHANGED restVars
    /\ UNCHANGED addVars
    /\ UNCHANGED <<botVars, sideVars>>

\* add_memory on the handle, start to end.
StoreAdd ==
    /\ pc = "Store"
    /\ ltm.built
    /\ hist.steps < MaxOps
    /\ \E f \in AdderFacts, outcome \in {"ok", "embed_fail", "save_fail"} :
         LET r == AddMemory(ltm.vs, disk, f, outcome)
         IN /\ ltm' = [ltm EXCEPT !.vs = r.vs]
            /\ disk' = r.disk
            /\ hist' = IF r.raised
                       THEN [hist EXCEPT !.steps = @ + 1]
                       ELSE [hist EXCEPT !.steps = @ + 1,
                                         !.adds = Append(@, f),
                                         !.okAdds = @ + 1]
            /\ op' = [NoOp EXCEPT !.kind = "add", !.raised = r.raised,
                                  !.fact = f,
                                  !.before = GetAllCount(ltm.vs),
                                  !.count = GetAllCount(r.vs)]
    /\ UNCHANGED seed
    /\ UNCHANGED restVars
    /\ UNCHANGED addVars
    /\ UNCHANGED <<botVars, sideVars>>

\* search on the handle; the embedding of the query may fail.
StoreSearch ==
    /\ pc = "Store"
    /\ ltm.built
    /\ \E q \in StoreQueries, k \in 0..(LONG_TERM_TOP_K + 1), searchOk \in BOOLEAN :
         LET failedCall == ltm.vs.has /\ ~searchOk
         IN op' = [NoOp EXCEPT !.kind = "search", !.raised = failedCall,
                               !.q = q, !.k = k,
                               !.result = IF failedCall THEN <<>>
                                          ELSE Search(ltm.vs, q, k),
                               !.before = GetAllCount(ltm.vs),
                               !.count = GetAllCount(ltm.vs)]
    /\ UNCHANGED <<ltm, disk, seed, hist>>
    /\ UNCHANGED restVars
    /\ UNCHANGED addVars
    /\ UNCHANGED <<botVars, sideVars>>

\* get_all_count on the handle.
StoreCount ==
    /\ pc = "Store"
    /\ ltm.built
    /\ op' = [NoOp EXCEPT !.kind = "count",
                          !.before = GetAllCount(ltm.vs),
                          !.count = GetAllCount(ltm.vs)]
    /\ UNCHANGED <<ltm, disk, seed, hist>>
    /\ UNCHANGED restVars
    /\ UNCHANGED addVars
    /\ UNCHANGED <<botVars, sideVars>>

\* The seed file is edited between two runs of the program.
SeedEdit ==
    /\ pc = "Store"
    /\ hist.steps < MaxOps
    /\ seed' \in SeedFiles \ {seed}
    /\ hist' = [hist EXCEPT !.steps = @ + 1]
    /\ op' = [NoOp EXCEPT !.kind = "seed_edit"]
    /\ UNCHANGED <<ltm, disk>>
    /\ UNCHANGED restVars
    /\ UNCHANGED addVars
    /\ UNCHANGED <<botVars, sideVars>>

NextStore == StoreOpen \/ StoreAdd \/ StoreSearch \/ StoreCount \/ SeedEdit

SpecStore == InitStore /\ [][NextStore]_vars

----------------------------------------------------------------------------
(* One graph node applied to any graph state *)

MaxMsgs == 3

NodeMessages == {HumanMessage("cat"), AIMessage("ok"), AIMessage("")}

RECURSIVE SeqsUpTo(_, _)
SeqsUpTo(S, n) ==
    IF n = 0 THEN {<<>>}
    ELSE LET shorter == SeqsUpTo(S, n - 1)
         IN shorter \cup {Append(q, x) : q \in {t \in shorter : Len(t) = n - 1},
                                         x \in S}

\* The states a node can be handed: AgentState, lines 16-23.
NodeStates ==
    {[messages |-> m, retrieved_memories |-> r, should_extract_memory |-> b] :
        m \in SeqsUpTo(NodeMessages, MaxMsgs),
        r \in {<<>>, <<"plays piano">>},
        b \in BOOLEAN}

\* The stores of SpecAdd and one holding more documents than
\* LONG_TERM_TOP_K.
NodeDocs ==
    <<Document("likes tea", "", "conversation", NoKey),
      Document("plays piano", "", "conversation", NoKey),
      Document("cat named Mochi", "pets", "initial", "medium")>>

NodeStores == AdderStores \cup {<<Vectorstore(NodeDocs), SavedIndex(NodeDocs)>>}

\* The extractor replies of Spec, one of two facts that are both kept, one
\* holding an element that is no string, an array inside a fence without a
\* language tag, and a fenced reply cut off inside the array.
NodeExtractorOutcomes ==
    CmdExtractorOutcomes
        \cup {[raised |-> FALSE, lines |-> l] :
                 l \in { <<"[42, \"abcde\"]">>,
                         <<"<fence>", "[\"likes tea\"]", "<fence>">>,
                         <<"<fence>json", "[\"cat named Mochi\"">> }}

InitNode ==
    /\ W = 0
    /\ pc = "Node"
    /\ state = EmptyState
    /\ g \in NodeStates
    /\ \E stores \in NodeStores :
         /\ ltm = [built |-> TRUE, vs |-> stores[1]]
         /\ disk = stores[2]
         /\ vs0 = stores[1].docs
    /\ seed = NoSeedFile
    /\ shown = NoShown
    /\ prompt = NoPrompt
    /\ turns = 0
    /\ trace = <<>>
    /\ pre = EmptyState
    /\ failed = "none"
    /\ genCalls = 0
    /\ extractCalls = 0
    /\ addCalls = 0
    /\ everAppended = <<>>
    /\ pending = <<>>
    /\ fault = "none"
    /\ xkind = "none"
    /\ tpc = [t \in Threads |-> "off"]
    /\ tfact = [t \in Threads |-> ""]
    /\ disk0 = disk
    /\ addFailed = FALSE
    /\ xitems = <<>>
    /\ cmdOut = NoCmdOut
    /\ hist = NoHist
    /\ op = NoOp
    /\ io = NoIo
    /\ BotOff
    /\ SideOff

\* extract_memory called once on the state, with the store already built.
NodeExtract ==
    /\ pc = "Node"
    /\ \E xout \in NodeExtractorOutcomes, addOut \in AddOutcomes :
         \E r \in {extract_memory(g, ltm, disk, seed, xout, TRUE, addOut)} :
            /\ ltm' = r.ltm
            /\ disk' = r.disk
            /\ g' = IF r.raised THEN g ELSE Merge(g, r.update)
            /\ failed' = IF r.raised THEN "extract_memory" ELSE "none"
            /\ extractCalls' = IF r.invoked THEN 1 ELSE 0
            /\ addCalls' = r.calls
            /\ xkind' = ExtractKind(r, xout)
            /\ addFailed' = r.addRaised
            /\ xitems' = r.items
            /\ io' = [io EXCEPT
                        !.last_human = IF r.invoked THEN r.exchange.last_human
                                       ELSE "",
                        !.last_ai = IF r.invoked THEN r.exchange.last_ai ELSE "",
                        !.lines = IF r.invoked /\ ~xout.raised THEN xout.lines
                                  ELSE <<>>,
                        !.adds = [i \in 1..r.calls |-> addOut[i]]]
    /\ pre' = g
    /\ trace' = <<"extract_memory">>
    /\ pc' = "NodeDone"
    /\ UNCHANGED <<W, state, seed, shown, prompt, turns, genCalls, everAppended,
                   pending, fault, disk0, cmdOut>>
    /\ UNCHANGED addVars
    /\ UNCHANGED <<botVars, sideVars>>
    /\ UNCHANGED storeVars

\* retrieve_memories called once on the state, with the store already built.
\* pc becomes the node the graph runs next.
NodeRetrieve ==
    /\ pc = "Node"
    /\ \E searchOk \in BOOLEAN :
         \E r \in {retrieve_memories(g, ltm, disk, seed, TRUE, searchOk)} :
            /\ ltm' = r.ltm
            /\ disk' = r.disk
            /\ g' = IF r.raised THEN g ELSE Merge(g, r.update)
            /\ failed' = IF r.raised THEN "retrieve_memories" ELSE "none"
            /\ pc' = IF r.raised THEN "NodeDone"
                     ELSE NextNode("retrieve_memories")
            /\ io' = [io EXCEPT !.searched = r.searched,
                                !.query = IF r.searched
                                          THEN LastHuman(g.messages) ELSE ""]
    /\ pre' = g
    /\ trace' = <<"retrieve_memories">>
    /\ UNCHANGED <<W, state, seed, shown, prompt, turns, genCalls, extractCalls,
                   addCalls, everAppended, pending, fault, xkind, disk0,
                   addFailed, xitems, cmdOut>>
    /\ UNCHANGED addVars
    /\ UNCHANGED storeVars
    /\ UNCHANGED <<botVars, sideVars>>

NextNodeRun == NodeExtract \/ NodeRetrieve

SpecNode == InitNode /\ [][NextNodeRun]_vars

----------------------------------------------------------------------------
(* The bots: message handlers on `_history` *)

\* Everything that is not the bot's.
coreVars ==
    <<W, pc, state, g, ltm, disk, seed, shown, prompt, turns, trace, pre, failed,
      genCalls, extractCalls, addCalls, everAppended, pending, fault, xkind,
      tpc, tfact, vs0, disk0, addFailed, xitems, cmdOut, hist, op, io>>

agentVars == <<coreVars, sideVars>>

\* The bot process has started: `_history = {}`, no handler has run.
InitBot ==
    /\ W = 0
    /\ pc = "Bot"
    /\ state = EmptyState
    /\ g = EmptyState
    /\ ltm = [built |-> FALSE, vs |-> NoVectorstore]
    /\ disk = NoIndex
    /\ seed = NoSeedFile
    /\ shown = NoShown
    /\ prompt = NoPrompt
    /\ turns = 0
    /\ trace = <<>>
    /\ pre = EmptyState
    /\ failed = "none"
    /\ genCalls = 0
    /\ extractCalls = 0
    /\ addCalls = 0
    /\ everAppended = <<>>
    /\ pending = <<>>
    /\ fault = "none"
    /\ xkind = "none"
    /\ tpc = [t \in Threads |-> "off"]
    /\ tfact = [t \in Threads |-> ""]
    /\ vs0 = <<>>
    /\ disk0 = disk
    /\ addFailed = FALSE
    /\ xitems = <<>>
    /\ cmdOut = NoCmdOut
    /\ hist = NoHist
    /\ op = NoOp
    /\ io = NoIo
    /\ history = NoHistory
    /\ sent = NoSent
    /\ recorded = NoRecorded
    /\ SideOff

\* Messages received so far, all chats together.
Received == recorded["u1"].n + recorded["u2"].n + recorded["g1_u1"].n

\* handle_private passes MAX_PRIVATE_TURNS to update_history (qq_bot.py,
\* line 109), handle_group MAX_GROUP_TURNS (line 127).
MaxTurnsOf(ev) ==
    IF ev.group_id # "" THEN MAX_GROUP_TURNS ELSE MAX_PRIVATE_TURNS

\* handle_private / handle_group up to the reply (qq_bot.py, lines 101-108
\* and 116-126; wechat_bot.py, lines 103-141): the key of the chat, its
\* history, and raymond_core.chat on the prompt built from them.  Handlers
\* of different chats may be in progress at once (one thread per message in
\* wechat_bot.py); those of one chat run one after the other here.
BotReceive(ev) ==
    LET key == get_key(ev)
        n == recorded[key].n + 1
    IN /\ pc = "Bot"
       /\ Received < MaxBotMsgs
       /\ sent[key].kind # "chat"
       /\ sent' = [sent EXCEPT ![key] =
                     [kind |-> "chat", ev |-> ev,
                      user_input |-> Text(key, n), reply |-> Text(key, n),
                      prompt |-> build_prompt(history, key, Text(key, n))]]
       /\ recorded' = [recorded EXCEPT ![key].n = n]
       /\ UNCHANGED history
       /\ UNCHANGED agentVars

\* The rest of the handler: update_history(key, user_input, reply, limit).
BotRecord(key) ==
    /\ pc = "Bot"
    /\ sent[key].kind = "chat"
    /\ history' = update_history(history, key, sent[key].user_input,
                                 sent[key].reply, MaxTurnsOf(sent[key].ev))
    /\ sent' = [sent EXCEPT ![key].kind = "done"]
    /\ recorded' = [recorded EXCEPT
                      ![key].since = Append(@, sent[key].user_input.n)]
    /\ UNCHANGED agentVars

\* handle_reset (qq_bot.py, lines 134-138; wechat_bot.py, lines 113-116 and
\* 134-137): clear_history(key).
BotReset(ev) ==
    LET key == get_key(ev)
    IN /\ pc = "Bot"
       /\ sent[key].kind # "chat"
       /\ history' = clear_history(history, key)
       /\ sent' = [sent EXCEPT ![key] = [NoCall EXCEPT !.kind = "reset", !.ev = ev]]
       /\ recorded' = [recorded EXCEPT ![key].since = <<>>]
       /\ UNCHANGED agentVars

NextBot ==
    \/ \E ev \in BotEvents : BotReceive(ev)
    \/ \E key \in BotKeys : BotRecord(key)
    \/ \E ev \in BotEvents : BotReset(ev)

SpecBot == InitBot /\ [][NextBot]_vars

----------------------------------------------------------------------------
(* The front ends with a reset: a chat.py session or a bot process *)

\* A chat.py session on a path without an index, or a bot that has started.
InitReset == InitCmd \/ InitBot

NextReset == Next \/ NextBot

SpecReset == InitReset /\ [][NextReset]_vars

----------------------------------------------------------------------------
(* Properties of one session (Spec) *)

Order == <<"retrieve_memories", "generate_response", "extract_memory">>

Nodes == {"retrieve_memories", "generate_response", "extract_memory"}

Running == pc \in Nodes

\* C1: in every turn the nodes run in the order retrieve_memories,
\* generate_response, extract_memory, each at most once and one at a time:
\* the nodes run so far are a prefix of that order, the node to run next is
\* the one that follows them, and a turn that ended without an error ran
\* all three before the loop was idle again.
C1_PhaseOrder ==
    /\ IsPrefix(trace, Order)
    /\ Running => pc = Order[Len(trace) + 1]
    /\ (pc = "Idle" /\ trace # <<>> /\ failed = "none") => trace = Order
    /\ (pc = "Idle" /\ failed # "none") => failed = trace[Len(trace)]

C1_Witness == pc = "Idle" /\ turns = 2 /\ trace = Order /\ failed = "none"

\* C2: should_extract_memory is false whenever the session is idle; inside a
\* run it is true only between a successful generate_response and
\* extract_memory; and the extractor is invoked at most once per turn, only
\* in a turn whose generation produced a reply.
C2_PendingExtraction ==
    /\ ~state.should_extract_memory
    /\ g.should_extract_memory =>
          /\ pc = "extract_memory"
          /\ trace = <<"retrieve_memories", "generate_response">>
          /\ pending # <<>>
          /\ g.messages[Len(g.messages)] = pending[Len(pending)]
    /\ extractCalls <= 1
    /\ extractCalls = 1 => (genCalls = 1 /\ failed \in {"none", "extract_memory"})

C2_Witness ==
    pc = "Idle" /\ trace = Order /\ xkind = "skipped" /\ failed = "none"

\* C3: when the generation provider fails, no AIMessage is appended (the
\* transcript is the one before the turn plus the utterance),
\* extract_memory does not run, no add_memory call is made, and the loop
\* prints the error.
C3_GenerationFailureAborts ==
    (pc = "Idle" /\ fault = "generation") =>
        /\ failed = "generate_response"
        /\ Len(state.messages) = Len(pre.messages) + 1
        /\ SubSeq(state.messages, 1, Len(pre.messages)) = pre.messages
        /\ state.messages[Len(state.messages)].type = "human"
        /\ trace = <<"retrieve_memories", "generate_response">>
        /\ extractCalls = 0
        /\ addCalls = 0
        /\ shown.kind = "error"

C3_Witness ==
    pc = "Idle" /\ fault = "generation" /\ Len(pre.messages) = 2 /\ ltm.vs.has

\* C4: after a turn whose generation failed, the conversation state is the
\* one from before the utterance of that turn was submitted.
C4_NoPartialState ==
    (pc = "Idle" /\ fault = "generation") => state = pre

\* C5: when the provider call of the extractor fails, or its reply is not
\* JSON, or the JSON is not an array, extract_memory does not raise, no
\* add_memory call is made, and the reply of the turn is recorded as the
\* last message and printed.
C5_ExtractFailuresInvisible ==
    (pc = "Idle" /\ xkind \in {"provider_failed", "malformed", "object"}) =>
        /\ failed = "none"
        /\ addCalls = 0
        /\ shown.kind = "reply"
        /\ Len(state.messages) = Len(pre.messages) + 2
        /\ state.messages[Len(state.messages)] = AIMessage(shown.text)

\* C6: when the store search or the embedding provider fails in
\* retrieve_memories, the turn goes on: generate_response still runs.
C6_RetrievalFailureNonFatal ==
    (pc = "Idle" /\ fault \in {"search", "embedding"}) =>
        /\ failed # "retrieve_memories"
        /\ genCalls = 1

\* The most recent Min(m, 2w) messages of a transcript of m messages.
MostRecent(transcript, w) ==
    LET m == Len(transcript)
        k == Min(m, 2 * w)
    IN SubSeq(transcript, m - k + 1, m)

\* C7: the conversation part of the prompt sent to the generation provider
\* is exactly the Min(m, 2W) most recent messages of the transcript, in
\* order.
C7_WindowExact ==
    pc = "extract_memory" =>
        prompt.conversation = MostRecent(state.messages, W)

\* C8: building the windowed prompt leaves the transcript alone: the
\* transcript of the session holds every message appended since the last
\* reset, and so does the transcript of the run in progress.
C8_TranscriptKept ==
    /\ state.messages = everAppended
    /\ Running => g.messages = everAppended \o pending

C8_Witness ==
    /\ pc = "Idle"
    /\ trace = Order
    /\ W >= 1
    /\ Len(state.messages) > 2 * W
    /\ Len(prompt.conversation) < Len(state.messages) - 1

----------------------------------------------------------------------------
(* Properties of concurrent adds (SpecAdd) *)

AllDone == \A t \in Threads : tpc[t] = "done"

Added(docs) == SubSeq(docs, Len(vs0) + 1, Len(docs))

\* The documents docs hold, after those of the initial store, one document
\* per thread carrying the fact of that thread.
HoldsEveryAdd(docs) ==
    /\ Len(docs) = Len(vs0) + Cardinality(Threads)
    /\ SubSeq(docs, 1, Len(vs0)) = vs0
    /\ \A t \in Threads :
         \E i \in 1..Len(Added(docs)) : Added(docs)[i].page_content = tfact[t]

\* C9: once all concurrent add_memory calls have returned, the store holds
\* the record of every one of them.
C9_NoLostUpdate == AllDone => HoldsEveryAdd(ltm.vs.docs)

\* C10: once all concurrent add_memory calls have returned, the saved index
\* holds exactly the documents of the store in memory, and a fresh load
\* from it sees every added record.
C10_PersistedComplete ==
    AllDone =>
        /\ disk = SavedIndex(ltm.vs.docs)
        /\ HoldsEveryAdd(LoadOrCreate(disk, seed).vs.docs)

----------------------------------------------------------------------------
(* Properties of the store at one path (SpecStore) *)

\* The number of documents of docs that add_memory wrote with the text f.
CountOf(docs, f) ==
    Cardinality({i \in 1..Len(docs) :
                    docs[i].page_content = f /\ docs[i].source = "conversation"})

\* The number of elements of facts equal to f.
CountIn(facts, f) == Cardinality({i \in 1..Len(facts) : facts[i] = f})

\* C11: a LongTermMemory constructed on the path after add_memory calls
\* have returned holds the record of every one of them: each added fact is
\* there as often as it was added, the count covers them, and a search for
\* the text of an added fact with top_k 1 returns that text.
C11_RoundTrip ==
    (op.kind = "open" /\ ~op.raised) =>
        /\ GetAllCount(ltm.vs) >= Len(hist.adds)
        /\ \A f \in AdderFacts :
             CountIn(hist.adds, f) >= 1 =>
                 /\ ltm.vs.has
                 /\ CountOf(ltm.vs.docs, f) >= CountIn(hist.adds, f)
                 /\ Search(ltm.vs, f, 1) = <<f>>

\* A restart after an add that returned; the store held another text first.
C11_Witness ==
    /\ op.kind = "open"
    /\ ~op.raised
    /\ hist.inits >= 2
    /\ hist.adds = <<"likes tea">>
    /\ GetAllCount(ltm.vs) = 2

\* A LongTermMemory holds what the index on disk holds: nothing when it
\* never built an index, the documents of its index otherwise.
InSync(mem, dk) ==
    IF mem.vs.has THEN dk = SavedIndex(mem.vs.docs) ELSE dk.kind = "absent"

\* C12: whenever no add_memory call is running, the index on disk holds
\* exactly the documents of the store in memory, also after an add_memory
\* whose save_local raised.
C12_PersistedAfterEveryMutation == ltm.built => InSync(ltm, disk)

\* C13: an add_memory that returns raises the count by exactly one, also
\* for a text the store already holds; no operation lowers the count; and
\* the count is the number of documents loaded at construction plus the
\* number of add_memory calls that returned.
C13_CountIsLoadedPlusAdds ==
    /\ (op.kind = "add" /\ ~op.raised) => op.count = op.before + 1
    /\ op.kind \in {"add", "search", "count"} => op.count >= op.before
    /\ ltm.built => GetAllCount(ltm.vs) = hist.loaded + hist.okAdds

\* C14: a search that returns gives at most min(top_k, n) texts, each the
\* text of a document of the store, the closest to the query first and none
\* left out that is closer than one returned; on a store that never built
\* an index it returns the empty list and does not raise.
C14_SearchResult ==
    (op.kind = "search") =>
        LET docs == ltm.vs.docs
            res == op.result
        IN /\ ~ltm.vs.has => (~op.raised /\ res = <<>>)
           /\ ~op.raised =>
                /\ Len(res) <= Min(op.k, GetAllCount(ltm.vs))
                /\ \A i \in 1..Len(res) :
                     \E d \in 1..Len(docs) : docs[d].page_content = res[i]
                /\ \A i, j \in 1..Len(res) :
                     i < j => Sim(op.q, res[i]) >= Sim(op.q, res[j])
                /\ \A d \in 1..Len(docs) : \A i \in 1..Len(res) :
                     Sim(op.q, docs[d].page_content) > Sim(op.q, res[i]) =>
                         \E j \in 1..Len(res) : res[j] = docs[d].page_content

\* A search with top_k 1 on a store of two texts returns the one added last.
C14_Witness ==
    /\ op.kind = "search"
    /\ ~op.raised
    /\ op.k = 1
    /\ Len(ltm.vs.docs) = 2
    /\ ltm.vs.docs[1].page_content # ltm.vs.docs[2].page_content
    /\ op.result = <<ltm.vs.docs[2].page_content>>

\* C15: when the path holds no index, constructing LongTermMemory leaves an
\* index on the path, whatever the seed file holds, so that the next
\* construction loads it.
C15_InitPersists ==
    (op.kind = "open" /\ ~op.raised /\ op.diskBefore = "absent") =>
        /\ disk.kind = "ok"
        /\ LoadOrCreate(disk, seed).vs = Vectorstore(disk.docs)

\* C16: the seed memories are put into the store at most once on a path,
\* and only by the first construction that succeeds.
C16_SeedOnlyAtFirstInit ==
    /\ hist.seedInserts <= 1
    /\ (op.kind = "open" /\ op.seeded) => hist.inits = 1

----------------------------------------------------------------------------
(* Properties of the store within one session (Spec) *)

\* C17: when the index on disk cannot be loaded, every construction of
\* LongTermMemory raises and the failure is printed (at start-up as a load
\* error, in a turn as the error of the turn); the singleton is never
\* built, no add_memory runs, and the index on disk is never written.
C17_CorruptStoreKept ==
    (disk0.kind = "corrupt") =>
        /\ disk = disk0
        /\ ~ltm.built
        /\ addCalls = 0
        /\ (pc = "Idle" /\ turns = 0) => shown.kind = "load_error"
        /\ (pc = "Idle" /\ trace # <<>>) =>
               /\ failed = "retrieve_memories"
               /\ shown.kind = "error"

\* Two utterances on a path whose index cannot be loaded.
C17_Witness ==
    /\ disk0.kind = "corrupt"
    /\ pc = "Idle"
    /\ turns = 2
    /\ failed = "retrieve_memories"
    /\ fault = "corrupt"

----------------------------------------------------------------------------
(* Properties of the session with commands (SpecCmd) *)

\* extract_memory, line 175: the elements that are written.
Kept(item) == item.isStr /\ StrLen(item.text) > 5

\* The first turn, on a path with no index and no seed file, ran to its
\* end, and the extractor reply parsed to an array of strings longer than 5
\* characters.
FirstTurnExtracted ==
    /\ disk0.kind = "absent"
    /\ ~seed.exists
    /\ pc = "Idle"
    /\ turns = 1
    /\ trace = Order
    /\ failed = "none"
    /\ xkind = "array"
    /\ \A i \in 1..Len(xitems) : Kept(xitems[i])

\* /memory prints the number of facts of the array, /search prints every
\* one of them, and with the array ["cat named Mochi"] a search for "cat"
\* with top_k 1 on a LongTermMemory constructed on the path returns
\* ["cat named Mochi"].
StoredAndFound ==
    /\ cmdOut.kind = "count" => cmdOut.count = Len(xitems)
    /\ cmdOut.kind = "results" =>
           /\ Len(cmdOut.results) = Len(xitems)
           /\ \A i \in 1..Len(xitems) :
                \E j \in 1..Len(cmdOut.results) :
                    cmdOut.results[j] = xitems[i].text
    /\ xitems = <<JsonItem(TRUE, "cat named Mochi")>> =>
           /\ GetAllCount(NewLongTermMemory(disk, seed, TRUE).vs) = 1
           /\ Search(NewLongTermMemory(disk, seed, TRUE).vs, "cat", 1)
                  = <<"cat named Mochi">>
           /\ (cmdOut.kind = "results" /\ cmdOut.q = "cat") =>
                  cmdOut.results = <<"cat named Mochi">>

----------------------------------------------------------------------------
(* Properties of one node run (SpecNode) *)

\* C19: extract_memory handed fewer than 2 messages calls neither the
\* extractor nor add_memory and leaves the store and the index as they
\* were, whatever should_extract_memory is.
C19_ExtractionGated ==
    (pc = "NodeDone" /\ trace = <<"extract_memory">> /\ Len(pre.messages) < 2) =>
        /\ addCalls = 0
        /\ extractCalls = 0
        /\ ltm.vs.docs = vs0
        /\ disk = disk0
        /\ failed = "none"

\* extract_memory ran on a single human message with the flag set.
C19_Witness ==
    /\ pc = "NodeDone"
    /\ trace = <<"extract_memory">>
    /\ pre.messages = <<HumanMessage("cat")>>
    /\ pre.should_extract_memory
    /\ ~g.should_extract_memory
    /\ addCalls = 0

\* The texts add_memory has put into the store in memory, in order.
WrittenTexts ==
    [i \in 1..(Len(ltm.vs.docs) - Len(vs0)) |->
        ltm.vs.docs[Len(vs0) + i].page_content]

\* The texts of the elements of the array that pass the test of line 175.
KeptTexts ==
    LET kept == SelectSeq(xitems, Kept)
    IN [i \in 1..Len(kept) |-> kept[i].text]

\* C20: one extraction makes as many add_memory calls as the array holds
\* strings longer than 5 characters, one for each of them and for no other
\* element, in the order of the array.
C20_OneAddPerKeptFact ==
    (pc = "NodeDone" /\ trace = <<"extract_memory">> /\ xkind = "array") =>
        /\ addCalls = Len(KeptTexts)
        /\ ~addFailed => WrittenTexts = KeptTexts

\* The extractor replies that wrap the array ["likes tea"] in a fence.
FencedReplies ==
    { <<"<fence>json", "[\"likes tea\"]", "<fence>">>,
      <<"<fence>", "[\"likes tea\"]", "<fence>">> }

\* The extractor replies that are JSON cut off before its end.
TruncatedReplies ==
    { <<"[\"cat named Mochi\"">>,
      <<"<fence>json", "[\"cat named Mochi\"">> }

\* C21: when the extractor returns a fenced block wrapping an array of one
\* fact, extract_memory makes exactly one add_memory call, with that fact;
\* when it returns [] or JSON that is cut off, extract_memory makes no
\* add_memory call, leaves the store and the index as they were, and does
\* not raise.
C21_ParsingRobust ==
    (pc = "NodeDone" /\ trace = <<"extract_memory">> /\ extractCalls = 1) =>
        /\ io.lines \in FencedReplies =>
              /\ failed = "none"
              /\ addCalls = 1
              /\ KeptTexts = <<"likes tea">>
              /\ ~addFailed => WrittenTexts = <<"likes tea">>
        /\ io.lines \in {<<"[]">>} \cup TruncatedReplies =>
              /\ failed = "none"
              /\ addCalls = 0
              /\ ltm.vs.docs = vs0
              /\ disk = disk0

\* A fenced array of one fact was parsed and its fact written.
C21_Witness ==
    /\ pc = "NodeDone"
    /\ extractCalls = 1
    /\ io.lines = <<"<fence>", "[\"likes tea\"]", "<fence>">>
    /\ xkind = "array"
    /\ addCalls = 1
    /\ WrittenTexts = <<"likes tea">>

\* C22: when retrieve_memories has returned, retrieved_memories is what
\* the store's search returns for the content of the last HumanMessage of
\* the state, at most LONG_TERM_TOP_K texts, whatever the state held
\* before; when the state holds no HumanMessage the store is not searched
\* and retrieved_memories is empty; in both cases generate_response is the
\* node that runs next.
C22_RetrievedReplaced ==
    (trace = <<"retrieve_memories">> /\ failed = "none") =>
        LET q == LastHuman(pre.messages)
        IN /\ pc = "generate_response"
           /\ g.messages = pre.messages
           /\ Len(g.retrieved_memories) <= LONG_TERM_TOP_K
           /\ q # "" =>
                 /\ io.searched
                 /\ io.query = q
                 /\ g.retrieved_memories = Search(ltm.vs, q, LONG_TERM_TOP_K)
           /\ q = "" =>
                 /\ ~io.searched
                 /\ g.retrieved_memories = <<>>

\* A state that held a text retrieved earlier was searched for "cat" in a
\* store of three documents: the two closest texts replaced what it held.
C22_Witness ==
    /\ trace = <<"retrieve_memories">>
    /\ failed = "none"
    /\ pre.retrieved_memories = <<"plays piano">>
    /\ Len(ltm.vs.docs) = 3
    /\ io.query = "cat"
    /\ g.retrieved_memories = <<"cat named Mochi", "likes tea">>

----------------------------------------------------------------------------
(* Properties of one session, continued (Spec) *)

\* C23: the prompt sent to the generation provider is one system message
\* holding the persona text, then the few-shot examples, then the
\* Min(m, 2W) most recent messages of the transcript; the system message
\* holds the memory block exactly when retrieved_memories is not empty, and
\* the block is the header followed by one line for each retrieved text, in
\* retrieval order.
C23_PromptOrder ==
    pc = "extract_memory" =>
        LET msgs == prompt.messages
            f == Len(Fewshot)
        IN /\ Len(msgs) >= 1 + f
           /\ msgs[1].type = "system"
           /\ msgs[1].content = "system_prompt"
           /\ \A i \in 2..Len(msgs) : msgs[i].type # "system"
           /\ SubSeq(msgs, 2, 1 + f) = Fewshot
           /\ SubSeq(msgs, 2 + f, Len(msgs)) = MostRecent(state.messages, W)
           /\ (msgs[1].block # <<>>) <=> (g.retrieved_memories # <<>>)
           /\ msgs[1].block # <<>> =>
                 /\ Len(msgs[1].block) = 1 + Len(g.retrieved_memories)
                 /\ ~msgs[1].block[1].bullet
                 /\ \A i \in 1..Len(g.retrieved_memories) :
                       /\ msgs[1].block[i + 1].bullet
                       /\ msgs[1].block[i + 1].text = g.retrieved_memories[i]

\* The turn in progress has come through generate_response.
Generated == pc = "extract_memory"

\* The last turn ran all three nodes and agent.invoke returned.
Completed == pc = "Idle" /\ trace = Order /\ failed = "none"

\* C24: when generate_response has returned, the provider was invoked once
\* in the turn and the run holds the transcript plus one AIMessage; when the
\* turn has completed, the transcript is the transcript before the
\* utterance plus the HumanMessage of the utterance and one AIMessage, in
\* this order, and the content of that AIMessage is the reply that was
\* printed.
C24_OneReplyPerTurn ==
    /\ Generated =>
          /\ genCalls = 1
          /\ Len(g.messages) = Len(state.messages) + 1
          /\ SubSeq(g.messages, 1, Len(state.messages)) = state.messages
          /\ g.messages[Len(g.messages)].type = "ai"
    /\ Completed =>
          LET n == Len(pre.messages)
          IN /\ genCalls = 1
             /\ Len(state.messages) = n + 2
             /\ SubSeq(state.messages, 1, n) = pre.messages
             /\ state.messages[n + 1].type = "human"
             /\ state.messages[n + 2].type = "ai"
             /\ shown.kind = "reply"
             /\ shown.text = state.messages[n + 2].content

\* The second turn of a session completed with the reply "ok".
C24_Witness ==
    /\ Completed
    /\ turns = 2
    /\ Len(pre.messages) = 2
    /\ Len(state.messages) = 4
    /\ shown = [kind |-> "reply", text |-> "ok", count |-> 0]

\* C25: no step of a session other than /clear changes or removes a message
\* of the transcript: the transcript before the step is a prefix of the
\* transcript after it.
C25_AppendOnly ==
    [][Clear \/ IsPrefix(state.messages, state'.messages)]_vars

\* Two turns completed without a reset between them: the transcript of four
\* messages starts with the two of the first turn.
C25_Witness ==
    /\ pc = "Idle"
    /\ turns = 2
    /\ Len(pre.messages) = 2
    /\ Len(state.messages) = 4
    /\ IsPrefix(pre.messages, state.messages)
    /\ everAppended = state.messages

----------------------------------------------------------------------------
(* Properties of the store, continued (SpecStore) *)

\* C26: every document of the store, in memory and in the persisted index,
\* carries a confidence that is low, medium or high and a source that is
\* initial or conversation.
C26_RecordMetadata ==
    \A d \in {ltm.vs.docs[i] : i \in 1..Len(ltm.vs.docs)}
               \cup {disk.docs[i] : i \in 1..Len(disk.docs)} :
        /\ d.confidence \in {"low", "medium", "high"}
        /\ d.source \in {"initial", "conversation"}

----------------------------------------------------------------------------
(* Properties of the bots (SpecBot) *)

\* The chats a step acts for: those whose handler record or counters change.
Acting(k) == sent'[k] # sent[k] \/ recorded'[k] # recorded[k]

\* What `_history` holds for a key: the list, or nothing.
Stored(h, k) == IF k \in DOMAIN h THEN <<h[k]>> ELSE <<>>

\* C27: a handler step for one key (a message or a reset) leaves what
\* `_history` holds for every other key as it was, and every prompt built
\* for a key holds only entries whose texts are messages of that key and
\* replies to them.
C27_SessionsIsolated ==
    [][/\ \A k \in BotKeys :
            ~Acting(k) => Stored(history', k) = Stored(history, k)
       /\ \A k \in BotKeys :
            \A i \in 1..Len(sent'[k].prompt.turns) :
                sent'[k].prompt.turns[i].content.from = k]_vars

\* A prompt was built for u1 from one recorded exchange of its own while a
\* handler of the group chat was in progress and u2 had a history too.
C27_Witness ==
    /\ sent["u1"].kind = "chat"
    /\ Len(sent["u1"].prompt.turns) = 3
    /\ sent["g1_u1"].kind = "chat"
    /\ Len(get_history(history, "u2")) = 4
    /\ Len(get_history(history, "g1_u1")) = 2

\* The exchanges an update_history with limit max_turns keeps of those
\* recorded since the last reset: the last Min(m, max_turns), in order.
RECURSIVE Exchanges(_, _, _)
Exchanges(key, ids, i) ==
    IF i > Len(ids) THEN <<>>
    ELSE <<Entry("user", Text(key, ids[i])), Entry("assistant", Text(key, ids[i]))>>
            \o Exchanges(key, ids, i + 1)

LimitOf(key) == IF key = "g1_u1" THEN MAX_GROUP_TURNS ELSE MAX_PRIVATE_TURNS

\* C29: the history stored for a key has at most 2 * max_turns entries and
\* is the entries of the last Min(m, max_turns) of the m exchanges recorded
\* since the key's last reset, in their order; max_turns is 10 for a
\* private chat and 5 for a group chat.
C29_HistoryWindow ==
    \A k \in BotKeys :
        LET h == get_history(history, k)
            m == Len(recorded[k].since)
            kept == Min(m, LimitOf(k))
        IN /\ Len(h) <= 2 * LimitOf(k)
           /\ Len(h) = 2 * kept
           /\ h = Exchanges(k, recorded[k].since, m - kept + 1)

\* Eleven exchanges were recorded in a private chat: twenty entries are
\* stored and the first is the second message.
C29_Witness ==
    /\ Len(recorded["u1"].since) = 11
    /\ Len(get_history(history, "u1")) = 20
    /\ history["u1"][1] = Entry("user", Text("u1", 2))

----------------------------------------------------------------------------
(* Properties of reset (SpecReset) *)

IsSuffix(s, t) == Len(s) <= Len(t) /\ SubSeq(t, Len(t) - Len(s) + 1, Len(t)) = s

\* The step is the /clear of chat.py.
ClearStep == shown'.kind = "cleared" /\ shown.kind # "cleared"

\* The step is a reset of the bot for key k.
ResetStep(k) == sent'[k].kind = "reset" /\ pc = "Bot"

----------------------------------------------------------------------------
(* Properties of one session, the extractor's input (Spec) *)

\* C30: when a turn has completed and the extractor was invoked in it, the
\* texts it was handed are the utterance of the turn and the reply
\* generate_response appended in the turn.
C30_LatestExchange ==
    (Completed /\ extractCalls = 1) =>
        LET n == Len(pre.messages)
        IN /\ io.last_human = state.messages[n + 1].content
           /\ io.last_ai = state.messages[n + 2].content

----------------------------------------------------------------------------
(* Properties of one node run, continued (SpecNode) *)

\* What the store gains when every accepted fact gets an add_memory call of
\* its own: all accepted texts, in order, but those whose call failed before
\* the document was added.
RECURSIVE WrittenIndependently(_, _, _)
WrittenIndependently(texts, outcomes, i) ==
    IF i > Len(texts) THEN <<>>
    ELSE (IF i <= Len(outcomes) /\ outcomes[i] = "embed_fail"
          THEN <<>> ELSE <<texts[i]>>)
            \o WrittenIndependently(texts, outcomes, i + 1)

\* C31: after an extraction, the store holds every accepted fact of the
\* array except the one whose add_memory call failed to add it: the facts
\* before a failing call stay and the facts after it are written.
C31_IndependentAdds ==
    (pc = "NodeDone" /\ trace = <<"extract_memory">> /\ xkind = "array") =>
        WrittenTexts = WrittenIndependently(KeptTexts, io.adds, 1)

----------------------------------------------------------------------------
(* agent/graph.py: the lazily built globals, used by several sessions *)

\* The program has started and nothing of the chat session, the bots or the
\* store history is in use: every variable of theirs but pc.
CoreOff ==
    /\ W = 0
    /\ state = EmptyState
    /\ g = EmptyState
    /\ ltm = [built |-> FALSE, vs |-> NoVectorstore]
    /\ disk = NoIndex
    /\ seed = NoSeedFile
    /\ shown = NoShown
    /\ prompt = NoPrompt
    /\ turns = 0
    /\ trace = <<>>
    /\ pre = EmptyState
    /\ failed = "none"
    /\ genCalls = 0
    /\ extractCalls = 0
    /\ addCalls = 0
    /\ everAppended = <<>>
    /\ pending = <<>>
    /\ fault = "none"
    /\ xkind = "none"
    /\ tpc = [t \in Threads |-> "off"]
    /\ tfact = [t \in Threads |-> ""]
    /\ vs0 = <<>>
    /\ disk0 = disk
    /\ addFailed = FALSE
    /\ xitems = <<>>
    /\ cmdOut = NoCmdOut
    /\ hist = NoHist
    /\ op = NoOp
    /\ io = NoIo

\* Sessions that run turns in one process, and the turns of each.
MaxSessions == 2

MaxSessTurns == 1

\* /memory and /search commands of each session.
MaxSessCmds == 1

Sessions == 1..MaxSessions

\* The globals of graph.py, lines 27-30.
Singletons ==
    {"_long_term_memory", "_llm", "_system_prompt", "_fewshot_messages"}

\* The getter calls of one turn, in order: retrieve_memories (line 77),
\* generate_response (lines 84-86), extract_memory (lines 145 and 173).
TurnGetters ==
    <<"_long_term_memory", "_llm", "_system_prompt", "_fewshot_messages",
      "_llm", "_long_term_memory">>

\* extract_memory returns before line 145 when there is no exchange to
\* extract from, and skips line 173 when the reply is not a list.
LastGetters == {4, 5, 6}

\* An object is named by the number of its construction; 0 is None.
NoSingle == [n \in Singletons |-> 0]

NoMade == [n \in Singletons |-> 0]

NoSess ==
    [t \in Sessions |->
        [at |-> "idle", i |-> 0, turns |-> 0, cmds |-> 0,
         got |-> [n \in Singletons |-> {}]]]

InitLazy ==
    /\ pc = "Sessions"
    /\ CoreOff
    /\ BotOff
    /\ single = NoSingle
    /\ made = NoMade
    /\ sess = NoSess
    /\ WxOff
    /\ DataOff

lazyRest == <<coreVars, botVars, wxVars, dataVars>>

\* agent.invoke of a session's turn reaches its first getter.
SessionTurn(t) ==
    /\ pc = "Sessions"
    /\ sess[t].at = "idle"
    /\ sess[t].turns < MaxSessTurns
    /\ sess' = [sess EXCEPT ![t].at = "test", ![t].i = 1]
    /\ UNCHANGED <<single, made>>
    /\ UNCHANGED lazyRest

\* `if _x is None:` (lines 35, 42, 49, 56)
GetterTest(t) ==
    /\ pc = "Sessions"
    /\ sess[t].at = "test"
    /\ sess' = [sess EXCEPT ![t].at =
                  IF single[TurnGetters[sess[t].i]] = 0
                  THEN "build" ELSE "return"]
    /\ UNCHANGED <<single, made>>
    /\ UNCHANGED lazyRest

\* `_x = build()` (lines 36, 43, 50, 57): the object is constructed and the
\* global set to it, or the constructor raises and the turn ends there.
GetterBuild(t, outcome) ==
    LET n == TurnGetters[sess[t].i]
    IN /\ pc = "Sessions"
       /\ sess[t].at = "build"
       /\ IF outcome = "ok"
          THEN /\ made' = [made EXCEPT ![n] = @ + 1]
               /\ single' = [single EXCEPT ![n] = made[n] + 1]
               /\ sess' = [sess EXCEPT ![t].at = "return"]
          ELSE /\ sess' = [sess EXCEPT ![t].at = "idle", ![t].i = 0,
                                       ![t].turns = @ + 1]
               /\ UNCHANGED <<single, made>>
       /\ UNCHANGED lazyRest

\* `return _x` (lines 37, 44, 51, 58): the node works with the object the
\* global refers to now, and goes on to the next getter of the turn.
GetterReturn(t, last) ==
    LET n == TurnGetters[sess[t].i]
        i == sess[t].i
    IN /\ pc = "Sessions"
       /\ sess[t].at = "return"
       /\ last => i \in LastGetters
       /\ i = Len(TurnGetters) => last
       /\ sess' = [sess EXCEPT
                     ![t].got[n] = @ \cup {single[n]},
                     ![t].at = IF last THEN "idle" ELSE "test",
                     ![t].i = IF last THEN 0 ELSE i + 1,
                     ![t].turns = IF last THEN @ + 1 ELSE @]
       /\ UNCHANGED <<single, made>>
       /\ UNCHANGED lazyRest

\* chat.py, handle_command: /memory (line 101) and /search (line 111) each
\* construct a LongTermMemory of their own.
SessionCommand(t) ==
    /\ pc = "Sessions"
    /\ sess[t].at = "idle"
    /\ sess[t].cmds < MaxSessCmds
    /\ made' = [made EXCEPT !["_long_term_memory"] = @ + 1]
    /\ sess' = [sess EXCEPT ![t].cmds = @ + 1]
    /\ UNCHANGED single
    /\ UNCHANGED lazyRest

NextLazy ==
    \/ \E t \in Sessions : SessionTurn(t)
    \/ \E t \in Sessions : GetterTest(t)
    \/ \E t \in Sessions, outcome \in {"ok", "raise"} : GetterBuild(t, outcome)
    \/ \E t \in Sessions, last \in BOOLEAN : GetterReturn(t, last)
    \/ \E t \in Sessions : SessionCommand(t)

SpecLazy == InitLazy /\ [][NextLazy]_vars

----------------------------------------------------------------------------
(* Properties of the lazily built globals (SpecLazy) *)

\* The objects the sessions have worked with for global n.
Handed(n) == UNION {sess[t].got[n] : t \in Sessions}

\* C32: the store, the generation provider, the persona prompt and the
\* example messages are each constructed at most once in a process, and
\* every turn of every session works with that one object, also when
\* sessions run their first turns at the same time.
C32_ConstructedOnce ==
    pc = "Sessions" =>
        \A n \in Singletons :
            /\ made[n] <= 1
            /\ Cardinality(Handed(n)) <= 1

----------------------------------------------------------------------------
(* fullversion/bot/wechat_bot.py: one handler thread per message *)

\* Handler threads in progress at once.
MaxHandlers == 2

Handlers == 1..MaxHandlers

\* The chats the messages come from: a private chat and a group member.
WxEvents ==
    {[group_id |-> "", user_id |-> "u1"], [group_id |-> "g1", user_id |-> "u1"]}

WxKeys == {get_key(ev) : ev \in WxEvents}

\* What requests.post does in raymond_core.chat, lines 114-134: a response,
\* or one of the three except branches.
ChatOutcomes == {"ok", "ConnectionError", "Timeout", "Exception"}

\* raymond_core.chat: the reply text of the n-th message of the chat, or the
\* text beginning with the error tag that the except branches return.
chat(key, n, outcome) ==
    IF outcome = "ok" THEN Text(key, n) ELSE [from |-> "error", n |-> n]

\* The exchanges of a chat the bot has recorded one handler after the other:
\* the last k of them, numbered from 1.
Recorded(key, k) ==
    [i \in 1..(2 * k) |->
        IF i % 2 = 1 THEN Entry("user", Text(key, (i + 1) \div 2))
        ELSE Entry("assistant", Text(key, i \div 2))]

NoHandler ==
    [at |-> "off", kind |-> "none", ev |-> [group_id |-> "", user_id |-> ""],
     key |-> "", n |-> 0, outcome |-> "none", reply |-> Text("", 0),
     before |-> <<>>, h |-> 0, sliced |-> 0]

\* The `_history` view of the heap: per key, the entries of the list stored.
ViewOf(refs, objs) == [k \in DOMAIN refs |-> objs[refs[k]]]

\* The bot has been running with one handler at a time: each chat has no
\* history yet, or its last exchanges up to its limit.
InitWx ==
    /\ pc = "WeChat"
    /\ CoreOff
    /\ sent = NoSent
    /\ recorded = NoRecorded
    /\ LazyOff
    /\ DataOff
    /\ \E k1 \in 0..MAX_PRIVATE_TURNS, k2 \in 0..MAX_GROUP_TURNS :
         LET ks == [k \in WxKeys |-> IF k = "u1" THEN k1 ELSE k2]
             present == {k \in WxKeys : ks[k] > 0}
         IN /\ lists = [i \in 1..2 |->
                          IF i = 1 THEN Recorded("u1", k1)
                          ELSE Recorded("g1_u1", k2)]
            /\ href = [k \in present |-> IF k = "u1" THEN 1 ELSE 2]
            /\ history = [k \in present |-> Recorded(k, ks[k])]
    /\ wx = [t \in Handlers |-> NoHandler]

wxRest == <<coreVars, sent, recorded, lazyVars, dataVars>>

\* handle_message up to update_history or clear_history (lines 90-143): the
\* key, the reset test, and the reply of raymond_core.chat.
WxHandle(t, ev, kind, outcome) ==
    LET key == get_key(ev)
        n == MAX_PRIVATE_TURNS + t
    IN /\ pc = "WeChat"
       /\ wx[t].at = "off"
       /\ kind = "reset" => outcome = "ok"
       /\ wx' = [wx EXCEPT ![t] =
                   [NoHandler EXCEPT
                      !.at = IF kind = "reset" THEN "pop" ELSE "setdefault",
                      !.kind = kind, !.ev = ev, !.key = key, !.n = n,
                      !.outcome = outcome,
                      !.reply = chat(key, n, outcome),
                      !.before = get_history(history, key)]]
       /\ UNCHANGED <<href, lists, history>>
       /\ UNCHANGED wxRest

\* clear_history: `_history.pop(key, None)`
WxPop(t) ==
    /\ pc = "WeChat"
    /\ wx[t].at = "pop"
    /\ href' = [k \in DOMAIN href \ {wx[t].key} |-> href[k]]
    /\ history' = ViewOf(href', lists)
    /\ wx' = [wx EXCEPT ![t].at = "done"]
    /\ UNCHANGED lists
    /\ UNCHANGED wxRest

\* update_history, line 55: `h = _history.setdefault(key, [])`
WxSetdefault(t) ==
    LET key == wx[t].key
        absent == key \notin DOMAIN href
        id == IF absent THEN Len(lists) + 1 ELSE href[key]
    IN /\ pc = "WeChat"
       /\ wx[t].at = "setdefault"
       /\ lists' = IF absent THEN Append(lists, <<>>) ELSE lists
       /\ href' = [k \in DOMAIN href \cup {key} |->
                     IF k = key THEN id ELSE href[k]]
       /\ history' = ViewOf(href', lists')
       /\ wx' = [wx EXCEPT ![t].h = id, ![t].at = "user"]
       /\ UNCHANGED wxRest

\* update_history, lines 56 and 57: `h.append(...)` of the user entry, then
\* of the assistant entry.
WxAppend(t) ==
    LET user == wx[t].at = "user"
        entry == IF user THEN Entry("user", Text(wx[t].key, wx[t].n))
                 ELSE Entry("assistant", wx[t].reply)
    IN /\ pc = "WeChat"
       /\ wx[t].at \in {"user", "assistant"}
       /\ lists' = [lists EXCEPT ![wx[t].h] = Append(@, entry)]
       /\ history' = ViewOf(href, lists')
       /\ wx' = [wx EXCEPT ![t].at = IF user THEN "assistant" ELSE "test"]
       /\ UNCHANGED href
       /\ UNCHANGED wxRest

\* update_history, line 58: `if len(h) > max_turns * 2:`
WxTest(t) ==
    /\ pc = "WeChat"
    /\ wx[t].at = "test"
    /\ wx' = [wx EXCEPT ![t].at =
                IF Len(lists[wx[t].h]) > MaxTurnsOf(wx[t].ev) * 2
                THEN "slice" ELSE "done"]
    /\ UNCHANGED <<href, lists, history>>
    /\ UNCHANGED wxRest

\* update_history, line 59, right-hand side: `h[-(max_turns * 2):]` makes a
\* new list.
WxSlice(t) ==
    /\ pc = "WeChat"
    /\ wx[t].at = "slice"
    /\ lists' = Append(lists, PySliceFrom(lists[wx[t].h],
                                          0 - (MaxTurnsOf(wx[t].ev) * 2)))
    /\ wx' = [wx EXCEPT ![t].sliced = Len(lists) + 1, ![t].at = "store"]
    /\ UNCHANGED <<href, history>>
    /\ UNCHANGED wxRest

\* update_history, line 59, the assignment: `_history[key] = ...`
WxStore(t) ==
    /\ pc = "WeChat"
    /\ wx[t].at = "store"
    /\ href' = [k \in DOMAIN href \cup {wx[t].key} |->
                  IF k = wx[t].key THEN wx[t].sliced ELSE href[k]]
    /\ history' = ViewOf(href', lists)
    /\ wx' = [wx EXCEPT ![t].at = "done"]
    /\ UNCHANGED lists
    /\ UNCHANGED wxRest

NextWx ==
    \/ \E t \in Handlers, ev \in WxEvents, outcome \in ChatOutcomes :
         WxHandle(t, ev, "chat", outcome)
    \/ \E t \in Handlers, ev \in WxEvents : WxHandle(t, ev, "reset", "ok")
    \/ \E t \in Handlers : WxPop(t)
    \/ \E t \in Handlers : WxSetdefault(t)
    \/ \E t \in Handlers : WxAppend(t)
    \/ \E t \in Handlers : WxTest(t)
    \/ \E t \in Handlers : WxSlice(t)
    \/ \E t \in Handlers : WxStore(t)

SpecWx == InitWx /\ [][NextWx]_vars

----------------------------------------------------------------------------
(* Properties of the handler threads (SpecWx) *)

\* Handler t has finished and no other handler has started.
AloneDone(t) ==
    /\ wx[t].at = "done"
    /\ \A u \in Handlers \ {t} : wx[u].at = "off"

\* C33: a message whose generation fails (no connection, timeout or any
\* other request error) adds nothing to the history of its chat: after the
\* handler the history of the key is what it was before.
C33_FailedAddsNothing ==
    pc = "WeChat" =>
        \A t \in Handlers :
            (/\ AloneDone(t)
             /\ wx[t].kind = "chat"
             /\ wx[t].outcome # "ok") =>
                get_history(history, wx[t].key) = wx[t].before

\* Every handler thread has returned, or has not started.
Quiescent == \A t \in Handlers : wx[t].at \in {"off", "done"}

\* The entries of a history alternate user and assistant from a user entry,
\* and each assistant entry is the reply to the user entry before it.
Alternates(h) ==
    /\ \A i \in 1..Len(h) :
         h[i].role = IF i % 2 = 1 THEN "user" ELSE "assistant"
    /\ \A i \in 1..Len(h) : i % 2 = 0 => h[i].content.n = h[i - 1].content.n

\* C34: with one thread per message, the stored history of every key
\* alternates user and assistant entries from a user entry, the two entries
\* of an exchange next to each other, whatever the interleaving of the
\* handlers of one key.
C34_HistoryAlternates ==
    (pc = "WeChat" /\ Quiescent) =>
        \A key \in DOMAIN history : Alternates(history[key])

\* The entries of a history, as a set.
EntriesOf(h) == {h[i] : i \in 1..Len(h)}

\* C35: no exchange is lost but to the window or to a reset: once the
\* update_history calls on a key have all returned, and no reset came in
\* between, the stored history of the key holds the entries of each of them
\* (two exchanges always fit in the window).
C35_NoExchangeLost ==
    (/\ pc = "WeChat"
     /\ Quiescent
     /\ \A t \in Handlers : wx[t].kind # "reset") =>
        \A t \in Handlers :
            wx[t].at = "done" =>
                {Entry("user", Text(wx[t].key, wx[t].n)),
                 Entry("assistant", wx[t].reply)}
                    \subseteq EntriesOf(get_history(history, wx[t].key))

----------------------------------------------------------------------------
(* fullversion/data_pipeline/clean_and_validate.py: the training-data cleaner *)

\* Samples in the input file.
MaxSamples == 2

\* clean_and_validate.py, lines 27-31.
MIN_TURNS == 2

MAX_TURNS == 20

MIN_GPT_CHARS == 2

MAX_GPT_CHARS == 500

MAX_TOTAL_CHARS == 2000

\* A text is the sequence of its characters.  The texts of the messages:
\* with and without a style marker, with and without blanks at the ends.
Values == {<<"6", "6">>, <<"6", "6", " ">>, <<" ", " ">>, <<"6">>}

\* STYLE_MARKERS (lines 34-38), those written in the characters of Values.
STYLE_MARKERS == {<<"6", "6">>, <<"f", "f">>}

Msg(role, value) == [from |-> role, value |-> value]

\* The role sequences of the samples.
SampleRoles ==
    {<<"human", "gpt">>, <<"gpt", "human">>, <<"human", "human">>,
     <<"gpt", "gpt">>, <<"system", "human", "gpt">>, <<"human", "gpt", "gpt">>}

Samples ==
    UNION {{[conversations |-> [i \in 1..Len(roles) |->
                                  Msg(roles[i], IF roles[i] = "system"
                                                THEN <<"6">> ELSE vals[i])]] :
              vals \in [1..Len(roles) -> Values]} : roles \in SampleRoles}

\* text.strip()
RECURSIVE clean_value(_)
clean_value(text) ==
    IF text = <<>> THEN <<>>
    ELSE IF Head(text) = " " THEN clean_value(Tail(text))
    ELSE IF text[Len(text)] = " "
         THEN clean_value(SubSeq(text, 1, Len(text) - 1))
    ELSE text

\* `marker in text`
Contains(text, marker) ==
    \E i \in 1..(Len(text) - Len(marker) + 1) :
        SubSeq(text, i, i + Len(marker) - 1) = marker

Dialogue(sample) ==
    SelectSeq(sample.conversations, LAMBDA c : c.from \in {"human", "gpt"})

RECURSIVE TotalChars(_)
TotalChars(msgs) ==
    IF msgs = <<>> THEN 0 ELSE Len(Head(msgs).value) + TotalChars(Tail(msgs))

RECURSIVE JoinValues(_)
JoinValues(msgs) ==
    IF msgs = <<>> THEN <<>>
    ELSE IF Len(msgs) = 1 THEN Head(msgs).value
    ELSE Head(msgs).value \o <<" ">> \o JoinValues(Tail(msgs))

\* check_format: a list with a human and a gpt message, every `from` known.
check_format(sample) ==
    LET convs == sample.conversations
    IN /\ Len(convs) >= 1
       /\ \E i \in 1..Len(convs) : convs[i].from = "human"
       /\ \E i \in 1..Len(convs) : convs[i].from = "gpt"
       /\ \A i \in 1..Len(convs) : convs[i].from \in {"system", "human", "gpt"}

\* check_length
check_length(sample) ==
    LET dialogue == Dialogue(sample)
    IN /\ Len(dialogue) >= MIN_TURNS
       /\ Len(dialogue) <= MAX_TURNS
       /\ TotalChars(dialogue) <= MAX_TOTAL_CHARS

\* check_gpt_quality
check_gpt_quality(sample) ==
    LET gpt_msgs == SelectSeq(sample.conversations, LAMBDA c : c.from = "gpt")
    IN /\ \A i \in 1..Len(gpt_msgs) :
            /\ Len(gpt_msgs[i].value) >= MIN_GPT_CHARS
            /\ Len(gpt_msgs[i].value) <= MAX_GPT_CHARS
       /\ \E marker \in STYLE_MARKERS : Contains(JoinValues(gpt_msgs), marker)

\* get_hash: the text "from:value" of the human and gpt messages joined by
\* "||", as it is before clean_sample.  md5 is taken to map different texts
\* to different digests.
RECURSIVE HashText(_)
HashText(msgs) ==
    IF msgs = <<>> THEN <<>>
    ELSE <<Head(msgs).from, ":">> \o Head(msgs).value
           \o (IF Len(msgs) = 1 THEN <<>> ELSE <<"|", "|">>)
           \o HashText(Tail(msgs))

get_hash(sample) == HashText(Dialogue(sample))

\* clean_sample: every value stripped, messages left empty dropped.
clean_sample(sample) ==
    LET stripped == [i \in 1..Len(sample.conversations) |->
                       Msg(sample.conversations[i].from,
                           clean_value(sample.conversations[i].value))]
    IN [conversations |-> SelectSeq(stripped, LAMBDA c : c.value # <<>>)]

\* The loop of main (lines 165-194) from sample i on: (seen_hashes, cleaned)
\* after it.
RECURSIVE CleanFrom(_, _, _, _)
CleanFrom(raw, i, seen_hashes, acc) ==
    IF i > Len(raw) THEN acc
    ELSE IF ~check_format(raw[i]) THEN CleanFrom(raw, i + 1, seen_hashes, acc)
    ELSE IF ~check_length(raw[i]) THEN CleanFrom(raw, i + 1, seen_hashes, acc)
    ELSE IF ~check_gpt_quality(raw[i])
         THEN CleanFrom(raw, i + 1, seen_hashes, acc)
    ELSE IF get_hash(raw[i]) \in seen_hashes
         THEN CleanFrom(raw, i + 1, seen_hashes, acc)
    ELSE CleanFrom(raw, i + 1, seen_hashes \cup {get_hash(raw[i])},
                   Append(acc, clean_sample(raw[i])))

\* The orders random.shuffle can leave a list in.
Shuffles(s) ==
    {[i \in 1..Len(s) |-> s[p[i]]] :
        p \in {q \in [1..Len(s) -> 1..Len(s)] :
                 \A a, b \in 1..Len(s) : a # b => q[a] # q[b]}}

\* INPUT_FILE holds any list of at most MaxSamples samples.
InitClean ==
    /\ pc = "clean_and_validate"
    /\ CoreOff
    /\ BotOff
    /\ LazyOff
    /\ WxOff
    /\ raw_data \in UNION {[1..n -> Samples] : n \in 0..MaxSamples}
    /\ cleaned = <<>>
    /\ chatlog = <<>>
    /\ finetune_data = <<>>
    /\ distill = <<>>

\* main: load, filter and deduplicate, clean, shuffle, save.
CleanAndValidate ==
    /\ pc = "clean_and_validate"
    /\ cleaned' \in Shuffles(CleanFrom(raw_data, 1, {}, <<>>))
    /\ pc' = "cleaned"
    /\ UNCHANGED <<W, state, g, ltm, disk, seed, shown, prompt, turns, trace,
                   pre, failed, genCalls, extractCalls, addCalls, everAppended,
                   pending, fault, xkind, tpc, tfact, vs0, disk0, addFailed,
                   xitems, cmdOut, hist, op, io>>
    /\ UNCHANGED <<botVars, lazyVars, wxVars>>
    /\ UNCHANGED <<raw_data, chatlog, finetune_data, distill>>

SpecClean == InitClean /\ [][CleanAndValidate]_vars

----------------------------------------------------------------------------
(* Properties of the training-data cleaner (SpecClean) *)

\* C36: the cleaner removes exact duplicates: no two samples of its output
\* have the same sequence of human and gpt messages with the same texts.
C36_NoDuplicates ==
    pc = "cleaned" =>
        \A i, j \in 1..Len(cleaned) :
            i # j => Dialogue(cleaned[i]) # Dialogue(cleaned[j])

----------------------------------------------------------------------------
(* fullversion/data_pipeline/generate_distill_data.py: the distillation loop *)

\* TARGET_TOTAL (line 34) and BATCH_SIZE (line 35), scaled down.
TARGET_TOTAL == 3

BATCH_SIZE == 2

\* `if fail_count > 10` (line 347)
FAIL_LIMIT == 10

\* `if call_count % 10 == 0` (line 336)
SAVE_EVERY == 10

\* main after load_existing (line 294): the samples already in the output
\* file are in all_data; samples are counted, not told apart.  call_count
\* is kept modulo SAVE_EVERY, which is all the loop reads of it.  run is the
\* number of API calls that have failed in a row; aborted, that the loop was
\* left through the break.
InitDistill ==
    /\ pc = "generate_distill_data"
    /\ CoreOff
    /\ BotOff
    /\ LazyOff
    /\ WxOff
    /\ raw_data = <<>>
    /\ cleaned = <<>>
    /\ chatlog = <<>>
    /\ finetune_data = <<>>
    /\ \E already \in 0..TARGET_TOTAL :
         distill = [at |-> "while", all_data |-> already, call_count |-> 0,
                    fail_count |-> 0, saved |-> already, run |-> 0,
                    aborted |-> FALSE]

distillRest ==
    <<coreVars, botVars, lazyVars, wxVars, raw_data, cleaned, chatlog,
      finetune_data>>

\* One pass of the while loop (lines 305-349).  The API call raises
\* ("raise"), or it returns and the handling of the response raises
\* ("bad_response"), or the response yields n valid samples ("ok").
DistillCall(outcome, n) ==
    /\ pc = "generate_distill_data"
    /\ distill.at = "while"
    /\ distill.all_data < TARGET_TOTAL
    /\ outcome # "ok" => n = 0
    /\ LET calls == IF outcome = "raise" THEN distill.call_count
                    ELSE (distill.call_count + 1) % SAVE_EVERY
           data == distill.all_data + n
           fails == IF outcome = "ok" THEN distill.fail_count
                    ELSE distill.fail_count + 1
       IN distill' =
            [at |-> IF outcome # "ok" /\ fails > FAIL_LIMIT
                    THEN "save" ELSE "while",
             all_data |-> data,
             call_count |-> calls,
             fail_count |-> fails,
             saved |-> IF outcome = "ok" /\ calls = 0
                       THEN data ELSE distill.saved,
             run |-> IF outcome = "ok" THEN 0 ELSE distill.run + 1,
             aborted |-> outcome # "ok" /\ fails > FAIL_LIMIT]
    /\ UNCHANGED distillRest

\* The loop is left, by its condition or by the break, and main saves
\* all_data (line 352).
DistillSave ==
    /\ pc = "generate_distill_data"
    /\ \/ distill.at = "save"
       \/ distill.at = "while" /\ distill.all_data >= TARGET_TOTAL
    /\ distill' = [distill EXCEPT !.at = "done", !.saved = distill.all_data]
    /\ UNCHANGED distillRest

NextDistill ==
    \/ \E n \in 0..BATCH_SIZE : DistillCall("ok", n)
    \/ \E outcome \in {"raise", "bad_response"} : DistillCall(outcome, 0)
    \/ DistillSave

SpecDistill == InitDistill /\ [][NextDistill]_vars

\* The script keeps running until main returns.
SpecDistillFair == SpecDistill /\ WF_vars(NextDistill)

----------------------------------------------------------------------------
(* Properties of the distillation loop (SpecDistill, SpecDistillFair) *)

\* C37: the loop is left early exactly when more than FAIL_LIMIT API calls
\* in a row have failed (failures with a successful call between them do
\* not add up); otherwise it runs until TARGET_TOTAL samples are there; and
\* either way the samples collected are saved before the program ends.
C37_AbortOnConsecutiveFailures ==
    pc = "generate_distill_data" =>
        /\ distill.aborted <=> distill.run > FAIL_LIMIT
        /\ distill.at = "done" =>
              /\ distill.aborted \/ distill.all_data >= TARGET_TOTAL
              /\ distill.saved = distill.all_data

\* C38: the loop terminates for every sequence of API outcomes (a failure,
\* or a response with any number of valid samples, zero included): it
\* reaches the target or the failure limit.
C38_LoopTerminates == <>(distill.at = "done")

----------------------------------------------------------------------------
(* dataset/data_cleaning.py: ChatDataCleaner *)

\* Lines of the raw data file.
MaxLines == 4

\* time_threshold_sec (line 7)
TIME_THRESHOLD_SEC == 300

\* The lines of the raw data file: messages of the configured user and
\* assistant at several times, one of blanks only, one with a marker of a
\* non-text message, one of somebody else, a record that is no message and
\* a line that is not JSON.
LogRecord(type, sender, content, timestamp) ==
    [type |-> type, accountName |-> sender, content |-> content,
     timestamp |-> timestamp]

LogLines ==
    {LogRecord("message", s, <<"a">>, ts) :
        s \in {"TARGET_USER", "TARGET_ASSISTANT"}, ts \in {0, 1, 400}}
      \cup {LogRecord("message", "TARGET_USER", <<"\t", " ">>, 1),
            LogRecord("message", "TARGET_ASSISTANT",
                      <<"C", "D", "A", "T", "A">>, 400),
            LogRecord("message", "other", <<"a">>, 1),
            LogRecord("member", "TARGET_USER", <<"a">>, 1),
            LogRecord("not json", "", <<>>, 0)}

\* normalize_content: every run of special blanks becomes one blank, runs
\* of blanks become one blank, and the ends are stripped.
RECURSIVE Collapse(_)
Collapse(content) ==
    IF Len(content) < 2 THEN content
    ELSE IF Head(content) = " " /\ content[2] = " "
         THEN Collapse(Tail(content))
    ELSE <<Head(content)>> \o Collapse(Tail(content))

normalize_content(content) ==
    IF content = <<>> THEN <<>>
    ELSE clean_value(Collapse([i \in 1..Len(content) |->
                                 IF content[i] = "\t" THEN " "
                                 ELSE content[i]]))

\* invalid_markers and the XML tests (lines 49-60), those written in the
\* characters of LogLines.
INVALID_MARKERS == {<<"C", "D", "A", "T", "A">>}

is_valid_text_message(content) ==
    /\ content # <<>>
    /\ \A marker \in INVALID_MARKERS : ~Contains(content, marker)

\* The first loop of clean_and_format_chat_data (lines 89-129) from line i
\* on: the sessions, cut where two kept messages are more than the
\* threshold apart.
RECURSIVE SplitSessions(_, _, _, _, _)
SplitSessions(lines, i, last_timestamp, current_session, conversations) ==
    IF i > Len(lines)
    THEN IF current_session # <<>>
         THEN Append(conversations, current_session) ELSE conversations
    ELSE LET item == lines[i]
             content == normalize_content(item.content)
             skip == \/ item.type # "message"
                     \/ item.accountName
                          \notin {"TARGET_USER", "TARGET_ASSISTANT"}
                     \/ ~is_valid_text_message(content)
             cut == /\ last_timestamp # 0
                    /\ item.timestamp - last_timestamp > TIME_THRESHOLD_SEC
             msg == [role |-> IF item.accountName = "TARGET_USER"
                              THEN "user" ELSE "assistant",
                     content |-> content, timestamp |-> item.timestamp]
         IN IF skip
            THEN SplitSessions(lines, i + 1, last_timestamp, current_session,
                               conversations)
            ELSE SplitSessions(
                     lines, i + 1, item.timestamp,
                     IF cut THEN <<msg>> ELSE Append(current_session, msg),
                     IF cut /\ current_session # <<>>
                     THEN Append(conversations, current_session)
                     ELSE conversations)

\* A merge that keeps every message as it is.
MergeSameRole_none(session, merged_messages) ==
    merged_messages
        \o [i \in 1..Len(session) |->
              [role |-> session[i].role, content |-> session[i].content]]

\* Lines 140-149: a message of the role of the one before it is appended to
\* that one's content after a newline.
RECURSIVE MergeSameRole(_, _)
MergeSameRole(session, merged_messages) ==
    IF session = <<>> THEN merged_messages
    ELSE LET msg == Head(session)
             n == Len(merged_messages)
         IN IF n > 0 /\ merged_messages[n].role = msg.role
            THEN MergeSameRole(
                     Tail(session),
                     [merged_messages EXCEPT
                        ![n].content = @ \o <<"\n">> \o msg.content])
            ELSE MergeSameRole(
                     Tail(session),
                     Append(merged_messages,
                            [role |-> msg.role, content |-> msg.content]))

\* Lines 152-157: assistant messages at the front and user messages at the
\* end are removed.
RECURSIVE TrimEnds(_)
TrimEnds(merged_messages) ==
    IF merged_messages = <<>> THEN <<>>
    ELSE IF Head(merged_messages).role = "assistant"
         THEN TrimEnds(Tail(merged_messages))
    ELSE IF merged_messages[Len(merged_messages)].role = "user"
         THEN TrimEnds(SubSeq(merged_messages, 1, Len(merged_messages) - 1))
    ELSE merged_messages

\* Lines 136-177: one entry per session that keeps at least two messages.
RECURSIVE FormatSessions(_)
FormatSessions(conversations) ==
    IF conversations = <<>> THEN <<>>
    ELSE LET merged_messages ==
                 TrimEnds(MergeSameRole(Head(conversations), <<>>))
             entry ==
                 [system |-> "SYSTEM_PROMPT",
                  conversations |->
                      [i \in 1..Len(merged_messages) |->
                          Msg(IF merged_messages[i].role = "user"
                              THEN "human" ELSE "gpt",
                              merged_messages[i].content)]]
         IN (IF Len(merged_messages) < 2 THEN <<>> ELSE <<entry>>)
                \o FormatSessions(Tail(conversations))

clean_and_format_chat_data(lines) ==
    FormatSessions(SplitSessions(lines, 1, 0, <<>>, <<>>))

\* The raw data file holds any lines, at most MaxLines of them; the user
\* configuration names both accounts.
InitChatData ==
    /\ pc = "data_cleaning"
    /\ CoreOff
    /\ BotOff
    /\ LazyOff
    /\ WxOff
    /\ raw_data = <<>>
    /\ cleaned = <<>>
    /\ chatlog \in UNION {[1..n -> LogLines] : n \in 0..MaxLines}
    /\ finetune_data = <<>>
    /\ distill = <<>>

\* ChatDataCleaner.clean_and_format_chat_data writes output_file.
CleanChatData ==
    /\ pc = "data_cleaning"
    /\ finetune_data' = clean_and_format_chat_data(chatlog)
    /\ pc' = "formatted"
    /\ UNCHANGED <<W, state, g, ltm, disk, seed, shown, prompt, turns, trace,
                   pre, failed, genCalls, extractCalls, addCalls, everAppended,
                   pending, fault, xkind, tpc, tfact, vs0, disk0, addFailed,
                   xitems, cmdOut, hist, op, io>>
    /\ UNCHANGED <<botVars, lazyVars, wxVars>>
    /\ UNCHANGED <<raw_data, cleaned, chatlog, distill>>

SpecChatData == InitChatData /\ [][CleanChatData]_vars

----------------------------------------------------------------------------
(* Properties of ChatDataCleaner (SpecChatData) *)

\* C39: every conversation ChatDataCleaner emits has at least two
\* messages, begins with a human message, ends with a gpt message and
\* alternates human and gpt, whatever the messages and timestamps of the
\* input.
C39_ConversationsAlternate ==
    pc = "formatted" =>
        \A e \in 1..Len(finetune_data) :
            LET convs == finetune_data[e].conversations
            IN /\ Len(convs) >= 2
               /\ convs[1].from = "human"
               /\ convs[Len(convs)].from = "gpt"
               /\ \A i \in 1..Len(convs) :
                    convs[i].from = IF i % 2 = 1 THEN "human" ELSE "gpt"

\* An input whose session opens with an assistant message and has two user
\* messages in a row: the first is dropped, the two are merged.
C39_Witness ==
    /\ pc = "formatted"
    /\ Len(chatlog) = 4
    /\ \A i \in 1..4 : chatlog[i].type = "message" /\ chatlog[i].timestamp = 1
    /\ [i \in 1..4 |-> chatlog[i].accountName]
         = <<"TARGET_ASSISTANT", "TARGET_USER", "TARGET_USER",
             "TARGET_ASSISTANT">>
    /\ \A i \in 1..4 : chatlog[i].content = <<"a">>
    /\ finetune_data =
         <<[system |-> "SYSTEM_PROMPT",
            conversations |-> <<Msg("human", <<"a", "\n", "a">>),
                                Msg("gpt", <<"a">>)>>]>>

====
